---- MODULE Spec2Model ----
(***************************************************************************)
(* A model of the k1-starknet-adapter server: the middleware stack of      *)
(* src/src/index.ts (body parser, Content-Type check, size check, rate     *)
(* limiter) and the POST /api/atomic-swap handler of src/src/routes.ts,    *)
(* which drives one swap of the external swap provider through quote,      *)
(* commit and wait-for-payment.                                            *)
(*                                                                         *)
(* The swap provider (@atomiqlabs/sdk) is outside the repository: every    *)
(* call into it is an environment step whose outcome (resolve, reject,     *)
(* the value returned) is chosen nondeterministically.                     *)
(***************************************************************************)
EXTENDS Integers, Sequences, FiniteSets, TLC

(***************************************************************************)
(* Bounds of the model.                                                    *)
(***************************************************************************)
\* the clock runs from 0 to MaxTicks half-seconds
MaxTicks == 4
\* window lengths tried: 0 .. MaxWindowTicks half-seconds
MaxWindowTicks == 2
\* ceilings tried: 0 .. MaxCeiling requests per window
MaxCeiling == 2

\* client network identities (req.ip)
Clients == {"c1", "c2"}

\* Date.now() values, in milliseconds
Times == {500 * t : t \in 0..MaxTicks}

VARIABLES
    now,              \* Date.now(), milliseconds
    windowMs,         \* rateLimitMiddleware's first parameter
    maxRequests,      \* rateLimitMiddleware's second parameter
    rateLimitStore,   \* Map<clientId, {count, resetTime}>
    admitted,         \* history: requests of a client admitted in its current window
    lastRl,           \* history: what the last run of the rate limiter saw and did
    tokens,           \* swapper.getAvailableTokens(): the provider's catalog
    pc,               \* where the request in flight stands
    req,              \* the request in flight: headers and body
    swapper,          \* the handler's local: "null", or the AtomicSwapper's condition
    swapId,           \* the handler's local swapId ("" while undefined)
    swapState,        \* swap.getState(), held by the provider
    paymentReceived,  \* the handler's local paymentReceived
    error,            \* the error caught by the handler's catch block
    calls,            \* history: the provider operations invoked for this request
    resp,             \* the response sent for this request
    srvPc,            \* where a request to any endpoint stands in the stack
    endpoint,         \* the route the request addresses
    nodeEnv,          \* process.env.NODE_ENV
    errorText,        \* the message of the internal failure the request hits
    requestId,        \* req.requestId ("" while undefined)
    site,             \* the statement that sent the response
    body,             \* the response body sent, with its status
    processEnv,       \* process.env: the configuration variables
    server,           \* the process: "starting", "listening" or "exited"
    configError,      \* the configuration error a request failed with ("" for none)
    failure,          \* the value handed to ErrorClassifier.classify
    fallbackCode,     \* the fallbackCode argument of classify
    classified,       \* classify(failure, fallbackCode)
    reclassified,     \* classify(classified, any fallback code)
    retryable,        \* isRetryable(classified): "unknown", "true" or "false"
    issued,           \* history: how many requests have reached the rate limiter
    ownStore,         \* history: each client's bucket as its own requests alone leave it
    specStore,        \* history: each client's bucket under the fixed-window counter
    lastOwn,          \* history: the decision the client's own requests alone lead to
    lastSpec,         \* history: the decision of the fixed-window counter
    catalog,          \* swapper.getAvailableTokens() as the handler reads it: STARKNET and BITCOIN entries in order
    asked,            \* the tokenAddress resolved ("" before the first resolution)
    firstRoute,       \* the outcome of the first resolution of asked
    secondRoute,      \* the outcome of the second resolution of asked
    changed,          \* history: the catalog changed between the two resolutions
    connections,      \* the connections the HTTP server holds open, in-flight requests included
    closing,          \* server.close() was called: no new connection is accepted
    timers,           \* the forced-shutdown timers armed: milliseconds left on each
    exitCode,         \* the code process.exit was called with (-1 while running)
    signals,          \* history: how many SIGTERM or SIGINT the process has received
    isInitialized,    \* AtomicSwapper.isInitialized
    sdkSwapper,       \* AtomicSwapper.swapper: the run that created it (0 while undefined)
    initPc,           \* where each caller of initialize() stands
    runs,             \* history: the newSwapper()/init() runs started on this AtomicSwapper
    failedRuns,       \* history: the runs that ended in an error
    completed,        \* history: some initialize() has completed without error
    lastCall          \* history: the last method called and what it did

rateVars == <<now, windowMs, maxRequests, rateLimitStore, admitted, lastRl>>
reqVars == <<tokens, pc, req, swapper, swapId, swapState, paymentReceived, error, calls, resp>>
srvVars == <<srvPc, endpoint, nodeEnv, errorText, requestId, site, body>>
cfgVars == <<processEnv, server, configError>>
clsVars == <<failure, fallbackCode, classified, reclassified, retryable>>
fwVars == <<issued, ownStore, specStore, lastOwn, lastSpec>>
resVars == <<catalog, asked, firstRoute, secondRoute, changed>>
shutVars == <<connections, closing, timers, exitCode, signals>>
swpVars == <<isInitialized, sdkSwapper, initPc, runs, failedRuns, completed, lastCall>>
auxVars == <<srvVars, cfgVars, clsVars, fwVars, resVars, shutVars, swpVars>>
vars == <<now, windowMs, maxRequests, rateLimitStore, admitted, lastRl,
          tokens, pc, req, swapper, swapId, swapState, paymentReceived, error, calls, resp,
          srvPc, endpoint, nodeEnv, errorText, requestId, site, body,
          processEnv, server, configError,
          failure, fallbackCode, classified, reclassified, retryable,
          issued, ownStore, specStore, lastOwn, lastSpec,
          catalog, asked, firstRoute, secondRoute, changed,
          connections, closing, timers, exitCode, signals,
          isInitialized, sdkSwapper, initPc, runs, failedRuns, completed, lastCall>>

\* a response body as a client can tell it apart: the status, and of the
\* fields success, error.code, message, requestId, details and stack what
\* they hold ("" for a field that is absent)
NoBody == [status |-> 0, success |-> FALSE, code |-> "", message |-> "",
           requestId |-> "", details |-> "", stack |-> ""]

\* no request to the server as a whole is modelled
ServerIdle ==
    /\ srvPc = "idle"
    /\ endpoint = "none"
    /\ nodeEnv = "production"
    /\ errorText = [keywords |-> {}, raw |-> ""]
    /\ requestId = ""
    /\ site = "none"
    /\ body = NoBody

\* a complete environment: every variable set, the numbers at their defaults
ValidEnv == [STARKNET_RPC_URL |-> TRUE, STARKNET_PRIVATE_KEY |-> TRUE,
             STARKNET_ACCOUNT_ADDRESS |-> TRUE, NWC_CONNECTION_STRING |-> TRUE,
             MAX_PRICING_DIFFERENCE_PPM |-> 20000, GET_REQUEST_TIMEOUT |-> 10000,
             POST_REQUEST_TIMEOUT |-> 10000]

\* the server runs with a valid configuration
ConfigIdle ==
    /\ processEnv = ValidEnv
    /\ server = "listening"
    /\ configError = ""

\* a thrown value or an AppError as classify reads it; NoFailure is none
NoFailure == [kind |-> "none", code |-> "", statusCode |-> 0, message |-> {},
              timestamp |-> 0, id |-> 0]

\* the classifier is not called
ClassifierIdle ==
    /\ failure = NoFailure
    /\ fallbackCode = "INTERNAL_SERVER_ERROR"
    /\ classified = NoFailure
    /\ reclassified = NoFailure
    /\ retryable = "unknown"

\* no history of the rate limiter is kept
FixedWindowIdle ==
    /\ issued = 0
    /\ ownStore = [c \in Clients |-> [present |-> FALSE, count |-> 0, resetTime |-> 0]]
    /\ specStore = ownStore
    /\ lastOwn = "none"
    /\ lastSpec = "none"

\* a resolution's outcome before it ran
NoRoute == [code |-> "NONE", status |-> 0, source |-> <<>>, destination |-> <<>>]

\* no token resolution is followed
ResolveIdle ==
    /\ catalog = [STARKNET |-> <<>>, BITCOIN |-> <<>>]
    /\ asked = ""
    /\ firstRoute = NoRoute
    /\ secondRoute = NoRoute
    /\ changed = FALSE

\* no signal reaches the process
ShutdownIdle ==
    /\ connections = 0
    /\ closing = FALSE
    /\ timers = <<>>
    /\ exitCode = -1
    /\ signals = 0

\* no method was called yet
NoCall == [method |-> "none", threw |-> FALSE, ready |-> FALSE, completed |-> FALSE]

\* the callers of initialize()
Callers == {"t1", "t2"}

\* no AtomicSwapper is followed
SwapperIdle ==
    /\ isInitialized = FALSE
    /\ sdkSwapper = 0
    /\ initPc = [p \in Callers |-> "idle"]
    /\ runs = 0
    /\ failedRuns = 0
    /\ completed = FALSE
    /\ lastCall = NoCall

\* nothing but the middleware stack, the configuration and the classifier is followed
OthersIdle == FixedWindowIdle /\ ResolveIdle /\ ShutdownIdle /\ SwapperIdle

AuxIdle == ServerIdle /\ ConfigIdle /\ ClassifierIdle /\ OthersIdle

(***************************************************************************)
(* rateLimitMiddleware, src/src/middleware.ts:161-202                      *)
(***************************************************************************)
\* a client with no entry in the Map
NoBucket == [present |-> FALSE, count |-> 0, resetTime |-> 0]

\* Math.ceil(a / d) for d > 0
Ceil(a, d) == -((-a) \div d)

\* line 177: !clientData || now > clientData.resetTime
RateWindowExpired_AtBoundary(b, t) == ~b.present \/ t >= b.resetTime
RateWindowExpired(b, t) == ~b.present \/ t > b.resetTime

\* line 186: clientData.count >= maxRequests
RateCeilingReached_OffByOne(b, n) == b.count > n
RateCeilingReached(b, n) == b.count >= n

\* line 194: Math.ceil((clientData.resetTime - now) / 1000)
RetryAfter(b, t) == Ceil(b.resetTime - t, 1000)

\* lines 179-182: rateLimitStore.set(clientId, {count: 1, resetTime: now + windowMs})
NewWindow_CountZero(t, w) == [present |-> TRUE, count |-> 0, resetTime |-> t + w]
NewWindow(t, w) == [present |-> TRUE, count |-> 1, resetTime |-> t + w]

\* the middleware's decision and the bucket it leaves, lines 175-200
RateLimitDecision(b, t, w, n) ==
    IF RateWindowExpired(b, t)
    THEN [next |-> TRUE, status |-> 0, code |-> "NONE", retryAfter |-> 0,
          bucket |-> NewWindow(t, w), reset |-> TRUE]
    ELSE IF RateCeilingReached(b, n)
    THEN [next |-> FALSE, status |-> 429, code |-> "RATE_LIMIT_EXCEEDED",
          retryAfter |-> RetryAfter(b, t), bucket |-> b, reset |-> FALSE]
    ELSE [next |-> TRUE, status |-> 0, code |-> "NONE", retryAfter |-> 0,
          bucket |-> [b EXCEPT !.count = @ + 1], reset |-> FALSE]

NoRl == [client |-> "none", at |-> 0, pre |-> NoBucket, preAdmitted |-> 0,
         next |-> FALSE, status |-> 0, code |-> "NONE", retryAfter |-> 0]

\* the same run, had the Map one entry for all clients
RateLimitStep_OneBucket(c) ==
    LET b == rateLimitStore[c]
        d == RateLimitDecision(b, now, windowMs, maxRequests)
    IN /\ rateLimitStore' = [k \in Clients |-> d.bucket]
       /\ admitted' = [admitted EXCEPT ![c] =
                          IF d.reset THEN 1 ELSE IF d.next THEN @ + 1 ELSE @]
       /\ lastRl' = [client |-> c, at |-> now, pre |-> b, preAdmitted |-> admitted[c],
                     next |-> d.next, status |-> d.status, code |-> d.code,
                     retryAfter |-> d.retryAfter]

\* one synchronous run of the middleware for a request of client c: the
\* function has no await, so lookup, check and increment are one step
RateLimitStep(c) ==
    LET b == rateLimitStore[c]
        d == RateLimitDecision(b, now, windowMs, maxRequests)
    IN /\ rateLimitStore' = [rateLimitStore EXCEPT ![c] = d.bucket]
       /\ admitted' = [admitted EXCEPT ![c] =
                          IF d.reset THEN 1 ELSE IF d.next THEN @ + 1 ELSE @]
       /\ lastRl' = [client |-> c, at |-> now, pre |-> b, preAdmitted |-> admitted[c],
                     next |-> d.next, status |-> d.status, code |-> d.code,
                     retryAfter |-> d.retryAfter]

(***************************************************************************)
(* The fixed-window counter the rate limiter is meant to be: look up the   *)
(* client's bucket; if absent or its window has expired, reset it to       *)
(* count 1 and admit; otherwise increment, and admit if and only if the    *)
(* new count is at most the ceiling.                                       *)
(***************************************************************************)
FixedWindowCounter(b, t, w, n) ==
    IF ~b.present \/ t > b.resetTime
    THEN [next |-> TRUE, bucket |-> [present |-> TRUE, count |-> 1, resetTime |-> t + w]]
    ELSE [next |-> b.count + 1 <= n, bucket |-> [b EXCEPT !.count = @ + 1]]

\* a decision as the histories record it
Verdict(next) == IF next THEN "admit" ELSE "reject"

(***************************************************************************)
(* The values a request carries.                                           *)
(***************************************************************************)
\* longest amountSats string tried
MaxStrLen == 2
\* numeric amountSats tried: -MaxHalves/2 .. MaxHalves/2 in steps of one half
MaxHalves == 3

\* the characters of an amountSats string
AmountChars == {"-", "0", "2", "a"}
AmountStrings == UNION {[1..k -> AmountChars] : k \in 0..MaxStrLen}

\* a JSON value for amountSats: absent, a number (counted in halves, so
\* that 1 is halves = 2 and 0.5 is halves = 1) or a string
Undefined == [kind |-> "undefined", halves |-> 0, chars |-> <<>>]
NumberValue(h) == [kind |-> "number", halves |-> h, chars |-> <<>>]
StringValue(s) == [kind |-> "string", halves |-> 0, chars |-> s]
AmountValues ==
    {Undefined} \cup {NumberValue(h) : h \in -MaxHalves..MaxHalves}
                \cup {StringValue(s) : s \in AmountStrings}

\* a JSON value for tokenAddress: absent, a number, or a string described by
\* what the handler reads of it (its prefix, its length) and by its text (id)
NoToken == [kind |-> "undefined", id |-> "none", startsWith0x |-> FALSE, length |-> 0, hex |-> FALSE]
TokenValues ==
    { NoToken,
      [kind |-> "number", id |-> "12345",      startsWith0x |-> FALSE, length |-> 0,  hex |-> FALSE],
      [kind |-> "string", id |-> "",           startsWith0x |-> FALSE, length |-> 0,  hex |-> FALSE],
      [kind |-> "string", id |-> "invalid-address", startsWith0x |-> FALSE, length |-> 15, hex |-> FALSE],
      [kind |-> "string", id |-> "0x03fe",     startsWith0x |-> TRUE,  length |-> 6,  hex |-> TRUE],
      [kind |-> "string", id |-> "03fe..66",   startsWith0x |-> FALSE, length |-> 66, hex |-> TRUE],
      [kind |-> "string", id |-> "0xzz..66",   startsWith0x |-> TRUE,  length |-> 66, hex |-> FALSE],
      [kind |-> "string", id |-> "0x03fe..66", startsWith0x |-> TRUE,  length |-> 66, hex |-> TRUE] }

\* the address of the one token a catalog may list (WBTC in the tests)
KnownToken == "0x03fe..66"

\* Content-Type headers: none, application/json, text/plain
ContentTypes == {"none", "application/json", "text/plain"}

\* 1024 * 1024, middleware.ts:143
maxSize == 1048576

\* Content-Length headers: -1 stands for no header
ContentLengths == {-1, maxSize, maxSize + 1}

Requests ==
    [client : {"c1"},
     contentType : ContentTypes,
     contentLength : ContentLengths,
     amountSats : AmountValues,
     lightningDestination : BOOLEAN,      \* whether the field is truthy
     tokenAddress : TokenValues]

(***************************************************************************)
(* JavaScript conversions used by the handler.                             *)
(***************************************************************************)
\* !v is false
Truthy(v) ==
    CASE v.kind = "undefined" -> FALSE
      [] v.kind = "number"    -> v.halves # 0
      [] v.kind = "string"    -> Len(v.chars) > 0

NaN == [nan |-> TRUE, halves |-> 0]
Num(h) == [nan |-> FALSE, halves |-> h]

IsDigit(ch) == ch \in {"0", "2"}
DigitValue(ch) == IF ch = "2" THEN 2 ELSE 0

\* the value of the leading run of digits of s from position i on, given
\* the value acc of the digits read so far
RECURSIVE Digits(_, _, _)
Digits(s, i, acc) ==
    IF i > Len(s) \/ ~IsDigit(s[i]) THEN acc
    ELSE Digits(s, i + 1, 10 * acc + DigitValue(s[i]))

\* parseInt(s): an optional sign, then the leading digits; NaN without a digit
ParseInt(s) ==
    LET neg == Len(s) > 0 /\ s[1] = "-"
        first == IF neg THEN 2 ELSE 1
    IN IF first > Len(s) \/ ~IsDigit(s[first]) THEN NaN
       ELSE Num(2 * (IF neg THEN -1 ELSE 1) * Digits(s, first, 0))

\* routes.ts:391: typeof amountSats === 'string' ? parseInt(amountSats) : Number(amountSats)
ParseAmount(v) ==
    IF v.kind = "string" THEN ParseInt(v.chars) ELSE Num(v.halves)

\* BigInt(amount) throws a RangeError for a number that is no integer, routes.ts:496
BigIntThrows(a) == a.halves % 2 # 0

(***************************************************************************)
(* The admission checks.                                                   *)
(***************************************************************************)
\* validateJsonMiddleware, middleware.ts:123-139 (the route is a POST)
InvalidContentType(r) ==
    r.contentType # "none" /\ r.contentType # "application/json"

\* validateRequestSizeMiddleware, middleware.ts:142-159:
\* parseInt(req.get('Content-Length') || '0') > maxSize
DeclaredLength(r) == IF r.contentLength = -1 THEN 0 ELSE r.contentLength
RequestTooLarge(r) == DeclaredLength(r) > maxSize

\* express.json({limit: '1mb'}), index.ts:78: a body that declares JSON is
\* read and parsed; one over the limit, or one that is not JSON, ends in an
\* error passed to the error handler
ParserRejects(r, malformed) ==
    r.contentType = "application/json" /\ (DeclaredLength(r) > maxSize \/ malformed)

\* routes.ts:375: !amountSats || !lightningDestination || !tokenAddress
MissingRequiredFields(r) ==
    ~Truthy(r.amountSats) \/ ~r.lightningDestination
        \/ ~(r.tokenAddress.kind = "number" \/ r.tokenAddress.length > 0)

\* routes.ts:392: isNaN(amount) || amount <= 0
InvalidAmount(a) == a.nan \/ a.halves <= 0

\* routes.ts:406: tokenAddress.startsWith is no function of a number
StartsWithThrows(t) == t.kind # "string"

\* routes.ts:406: !tokenAddress.startsWith('0x') || tokenAddress.length !== 66
InvalidTokenAddress(t) == ~t.startsWith0x \/ t.length # 66

(***************************************************************************)
(* Responses and error classification.                                     *)
(***************************************************************************)
NoResp == [status |-> 0, success |-> FALSE, code |-> "NONE", by |-> "none",
           retryAfter |-> 0, finalState |-> "NONE"]

\* res.status(st).json({success: false, error: {code: c, ...}})
Failure(st, c, who) == [NoResp EXCEPT !.status = st, !.code = c, !.by = who]

\* what an error message may contain, as far as a handler looks: the
\* keywords that occur in it, each in the letter case it is written in
ErrorMessages == {{}, {"insufficient balance"}, {"network"}, {"Network"}, {"timeout"},
                  {"network", "timeout"}}

\* String.prototype.toLowerCase on a keyword
ToLowerCase(k) == IF k = "Network" THEN "network" ELSE k

\* the catch block of the route, routes.ts:621-634
CatchStatusCode(msg) ==
    IF "insufficient balance" \in msg THEN <<400, "INSUFFICIENT_BALANCE">>
    ELSE IF "network" \in msg THEN <<503, "NETWORK_ERROR">>
    ELSE IF "timeout" \in msg THEN <<408, "TIMEOUT_ERROR">>
    ELSE <<500, "SWAP_EXECUTION_FAILED">>

\* errorHandlerMiddleware, middleware.ts:55-120, for the errors of the
\* body parser (PayloadTooLargeError, SyntaxError): neither name is one it
\* knows, neither message holds 'timeout' or 'rate limit'
ErrorHandlerStatusCode(name, msg) ==
    IF name = "ValidationError" THEN <<400, "VALIDATION_ERROR">>
    ELSE IF name = "UnauthorizedError" THEN <<401, "UNAUTHORIZED">>
    ELSE IF name = "NotFoundError" THEN <<404, "NOT_FOUND">>
    ELSE IF "timeout" \in msg THEN <<408, "TIMEOUT">>
    ELSE IF "rate limit" \in msg THEN <<429, "RATE_LIMIT">>
    ELSE <<500, "INTERNAL_ERROR">>

\* the ErrorCode enumeration, errors.ts:24-55
ErrorCode ==
    {"MISSING_REQUIRED_FIELDS", "INVALID_AMOUNT", "INVALID_ADDRESS", "INVALID_TOKEN_ADDRESS",
     "INVALID_REQUEST_FORMAT", "ENDPOINT_NOT_FOUND", "SWAP_EXECUTION_FAILED",
     "BALANCE_QUERY_FAILED", "CONFIGURATION_ERROR", "INTERNAL_SERVER_ERROR",
     "TOKEN_NOT_FOUND", "LIGHTNING_NOT_AVAILABLE", "INSUFFICIENT_BALANCE", "NETWORK_ERROR",
     "PAYMENT_TIMEOUT", "TIMEOUT_ERROR", "RPC_CONNECTION_FAILED", "RATE_LIMIT_EXCEEDED",
     "REQUEST_TOO_LARGE", "INVALID_CONTENT_TYPE"}

\* errors.ts:61-95
ErrorStatusMap ==
    [c \in ErrorCode |->
        CASE c \in {"MISSING_REQUIRED_FIELDS", "INVALID_AMOUNT", "INVALID_ADDRESS",
                    "INVALID_TOKEN_ADDRESS", "INVALID_REQUEST_FORMAT", "TOKEN_NOT_FOUND",
                    "INSUFFICIENT_BALANCE", "INVALID_CONTENT_TYPE"} -> 400
          [] c = "ENDPOINT_NOT_FOUND" -> 404
          [] c \in {"PAYMENT_TIMEOUT", "TIMEOUT_ERROR"} -> 408
          [] c = "REQUEST_TOO_LARGE" -> 413
          [] c = "RATE_LIMIT_EXCEEDED" -> 429
          [] c \in {"SWAP_EXECUTION_FAILED", "BALANCE_QUERY_FAILED", "CONFIGURATION_ERROR",
                    "INTERNAL_SERVER_ERROR"} -> 500
          [] c \in {"LIGHTNING_NOT_AVAILABLE", "NETWORK_ERROR", "RPC_CONNECTION_FAILED"} -> 503]

(***************************************************************************)
(* The decisions of POST /api/atomic-swap, routes.ts:360-648               *)
(***************************************************************************)
\* the body the handler destructures: express.json parses only a body that
\* declares JSON, any other is left as {}
Body(r) ==
    IF r.contentType = "application/json" THEN r
    ELSE [r EXCEPT !.amountSats = Undefined, !.lightningDestination = FALSE,
                   !.tokenAddress = NoToken]

\* routes.ts:374-417: the first check that fails decides; a tokenAddress
\* that is no string makes line 406 throw
RouteValidation_TokenFirst(b) ==
    IF MissingRequiredFields(b) THEN "MISSING_REQUIRED_FIELDS"
    ELSE IF StartsWithThrows(b.tokenAddress) THEN "THROW"
    ELSE IF InvalidTokenAddress(b.tokenAddress) THEN "INVALID_TOKEN_ADDRESS"
    ELSE IF InvalidAmount(ParseAmount(b.amountSats)) THEN "INVALID_AMOUNT"
    ELSE "OK"
RouteValidation(b) ==
    IF MissingRequiredFields(b) THEN "MISSING_REQUIRED_FIELDS"
    ELSE IF InvalidAmount(ParseAmount(b.amountSats)) THEN "INVALID_AMOUNT"
    ELSE IF StartsWithThrows(b.tokenAddress) THEN "THROW"
    ELSE IF InvalidTokenAddress(b.tokenAddress) THEN "INVALID_TOKEN_ADDRESS"
    ELSE "OK"

\* routes.ts:446: starknetTokens.find(t => t.address === tokenAddress)
TokenFound(cat, t) == t.id \in cat.starknet

\* routes.ts:467: a token of tokens.BITCOIN with lightning === true
LightningFound(cat) == cat.lightning

\* routes.ts:503: if (!swapId) throw
NoSwapId_Ignored(id) == FALSE
NoSwapId(id) == id = ""

\* routes.ts:535: if (!paymentReceived)
PaymentNotReceived_Ignored(p) == FALSE
PaymentNotReceived(p) == ~p

\* routes.ts:596: if (swapper) in the catch block
CleanupOnError_Skipped(sw) == FALSE
CleanupOnError(sw) == sw # "null"

\* routes.ts:526: a rejected await swap.commit(signer) inside the try block
\* is caught at line 594
OnCommitRejected_Retry == "commit"
OnCommitRejected == "catch"

\* routes.ts:547-557: the answer to a payment that was not received
TimeoutResponse(state) ==
    [Failure(408, "PAYMENT_TIMEOUT", "route") EXCEPT !.finalState = state]

\* routes.ts:569-592: res.json(swapResult) leaves the status at 200
SuccessResponse(state) ==
    [NoResp EXCEPT !.status = 200, !.success = TRUE, !.by = "route", !.finalState = state]

Call(op, result) == [op |-> op, result |-> result]

\* routes.ts:444-476: what swapper.getSupportedTokens() may hold
Catalogs == [starknet : SUBSET {KnownToken}, lightning : BOOLEAN]

(***************************************************************************)
(* The clock and the rate limiter alone.                                   *)
(***************************************************************************)
IdleRequest ==
    /\ pc = "idle"
    /\ req = [client |-> "c1", contentType |-> "none", contentLength |-> -1,
              amountSats |-> Undefined,
              lightningDestination |-> FALSE, tokenAddress |-> NoToken]
    /\ swapper = "null"
    /\ swapId = ""
    /\ swapState = "NONE"
    /\ paymentReceived = FALSE
    /\ error = {}
    /\ calls = <<>>
    /\ resp = NoResp

InitRate ==
    /\ now = 0
    /\ windowMs \in {500 * k : k \in 0..MaxWindowTicks}
    /\ maxRequests \in 0..MaxCeiling
    /\ rateLimitStore = [c \in Clients |-> NoBucket]
    /\ admitted = [c \in Clients |-> 0]
    /\ lastRl = NoRl
    /\ tokens = [starknet |-> {KnownToken}, lightning |-> TRUE]
    /\ IdleRequest
    /\ AuxIdle

\* the clock advances between two events
Tick ==
    /\ now + 500 \in Times
    /\ now' = now + 500
    /\ UNCHANGED <<windowMs, maxRequests, rateLimitStore, admitted, lastRl>>
    /\ UNCHANGED reqVars
    /\ UNCHANGED auxVars

\* a request of client c reaches the rate limiter
RateLimitRequest(c) ==
    /\ RateLimitStep(c)
    /\ UNCHANGED <<now, windowMs, maxRequests>>
    /\ UNCHANGED reqVars
    /\ UNCHANGED auxVars

NextRate ==
    \/ Tick
    \/ \E c \in Clients : RateLimitRequest(c)

SpecRate == InitRate /\ [][NextRate]_vars

(***************************************************************************)
(* The rate limiter run next to two histories: each client's bucket as     *)
(* that client's own requests alone leave it, and the fixed-window         *)
(* counter's bucket and decision for the same requests at the same times.  *)
(***************************************************************************)
\* requests issued in one behaviour
MaxIssued == 5

\* a request of client c reaches the rate limiter, lines 172-200
FixedWindowRequest(c) ==
    /\ issued < MaxIssued
    /\ RateLimitStep(c)
    /\ issued' = issued + 1
    /\ LET own == RateLimitDecision(ownStore[c], now, windowMs, maxRequests)
           fixed == FixedWindowCounter(specStore[c], now, windowMs, maxRequests)
       IN /\ ownStore' = [ownStore EXCEPT ![c] = own.bucket]
          /\ lastOwn' = Verdict(own.next)
          /\ specStore' = [specStore EXCEPT ![c] = fixed.bucket]
          /\ lastSpec' = Verdict(fixed.next)
    /\ UNCHANGED <<now, windowMs, maxRequests>>
    /\ UNCHANGED reqVars
    /\ UNCHANGED <<srvVars, cfgVars, clsVars, resVars, shutVars, swpVars>>

NextFixedWindow ==
    \/ Tick
    \/ \E c \in Clients : FixedWindowRequest(c)

SpecFixedWindow == InitRate /\ [][NextFixedWindow]_vars

(***************************************************************************)
(* One request to POST /api/atomic-swap through the middleware stack of    *)
(* index.ts:76-89 and the handler of routes.ts:360-648.                    *)
(***************************************************************************)
Respond(r) ==
    /\ resp' = r
    /\ pc' = "done"

Throw(msg) ==
    /\ error' = msg
    /\ pc' = "catch"

\* index.ts:78 and, when the parser fails, index.ts:115
JsonParser ==
    /\ pc = "parser"
    /\ \E malformed \in BOOLEAN :
       IF ParserRejects(req, malformed)
       THEN LET sc == ErrorHandlerStatusCode(
                         IF DeclaredLength(req) > maxSize THEN "PayloadTooLargeError"
                         ELSE "SyntaxError", {})
            IN Respond(Failure(sc[1], sc[2], "errorHandlerMiddleware"))
       ELSE /\ pc' = "validateJson"
            /\ UNCHANGED resp
    /\ UNCHANGED <<tokens, req, swapper, swapId, swapState, paymentReceived, error, calls>>
    /\ UNCHANGED rateVars
    /\ UNCHANGED auxVars

\* index.ts:84
ValidateJson ==
    /\ pc = "validateJson"
    /\ IF InvalidContentType(req)
       THEN Respond(Failure(400, "INVALID_CONTENT_TYPE", "validateJsonMiddleware"))
       ELSE /\ pc' = "validateSize"
            /\ UNCHANGED resp
    /\ UNCHANGED <<tokens, req, swapper, swapId, swapState, paymentReceived, error, calls>>
    /\ UNCHANGED rateVars
    /\ UNCHANGED auxVars

\* index.ts:85
ValidateRequestSize ==
    /\ pc = "validateSize"
    /\ IF RequestTooLarge(req)
       THEN Respond(Failure(413, "REQUEST_TOO_LARGE", "validateRequestSizeMiddleware"))
       ELSE /\ pc' = "rateLimit"
            /\ UNCHANGED resp
    /\ UNCHANGED <<tokens, req, swapper, swapId, swapState, paymentReceived, error, calls>>
    /\ UNCHANGED rateVars
    /\ UNCHANGED auxVars

\* index.ts:86
RateLimit ==
    /\ pc = "rateLimit"
    /\ RateLimitStep(req.client)
    /\ LET d == RateLimitDecision(rateLimitStore[req.client], now, windowMs, maxRequests)
       IN IF d.next
          THEN /\ pc' = "route"
               /\ UNCHANGED resp
          ELSE Respond([Failure(d.status, d.code, "rateLimitMiddleware")
                           EXCEPT !.retryAfter = d.retryAfter])
    /\ UNCHANGED <<now, windowMs, maxRequests>>
    /\ UNCHANGED <<tokens, req, swapper, swapId, swapState, paymentReceived, error, calls>>
    /\ UNCHANGED auxVars

\* routes.ts:366-417: the handler's synchronous validation
RouteValidate ==
    /\ pc = "route"
    /\ LET v == RouteValidation(Body(req))
       IN IF v = "OK"
          THEN /\ pc' = "construct"
               /\ UNCHANGED <<resp, error>>
          ELSE IF v = "THROW"
          THEN Throw({}) /\ UNCHANGED resp
          ELSE Respond(Failure(400, v, "route")) /\ UNCHANGED error
    /\ UNCHANGED <<tokens, req, swapper, swapId, swapState, paymentReceived, calls>>
    /\ UNCHANGED rateVars
    /\ UNCHANGED auxVars

\* routes.ts:429-436: createDefaultConfig() and new AtomicSwapper(config),
\* whose constructor runs validateConfig (atomicSwapper.ts:32-40) and throws
\* on a configuration it refuses
Construct ==
    /\ pc = "construct"
    /\ \E ok \in BOOLEAN :
          IF ok
          THEN /\ swapper' = "constructed"
               /\ pc' = "initialize"
               /\ UNCHANGED error
          ELSE /\ Throw({})
               /\ UNCHANGED swapper
    /\ UNCHANGED <<tokens, req, swapId, swapState, paymentReceived, calls, resp>>
    /\ UNCHANGED rateVars
    /\ UNCHANGED auxVars

\* routes.ts:437: await swapper.initialize(), atomicSwapper.ts:45-108
Initialize ==
    /\ pc = "initialize"
    /\ \/ /\ swapper' = "initialized"
          /\ pc' = "resolve"
          /\ UNCHANGED error
       \/ /\ \E msg \in ErrorMessages : Throw(msg)
          /\ UNCHANGED swapper
    /\ calls' = Append(calls, Call("initialize", "done"))
    /\ UNCHANGED <<tokens, req, swapId, swapState, paymentReceived, resp>>
    /\ UNCHANGED rateVars
    /\ UNCHANGED auxVars

\* routes.ts:443-500: the two catalog lookups, then the arguments of
\* createSwapQuote are evaluated
Resolve ==
    /\ pc = "resolve"
    /\ LET b == Body(req)
       IN IF ~TokenFound(tokens, b.tokenAddress)
          THEN pc' = "stopTokenNotFound" /\ UNCHANGED error
          ELSE IF ~LightningFound(tokens)
          THEN pc' = "stopNoLightning" /\ UNCHANGED error
          ELSE IF BigIntThrows(ParseAmount(b.amountSats))
          THEN Throw({})
          ELSE pc' = "quote" /\ UNCHANGED error
    /\ UNCHANGED <<tokens, req, swapper, swapId, swapState, paymentReceived, calls, resp>>
    /\ UNCHANGED rateVars
    /\ UNCHANGED auxVars

\* await swapper.stop() outside the catch block: it resolves, or it rejects
\* and the catch block takes over
StopThen(r) ==
    \/ /\ calls' = Append(calls, Call("stop", "ok"))
       /\ Respond(r)
       /\ UNCHANGED error
    \/ /\ calls' = Append(calls, Call("stop", "throw"))
       /\ \E msg \in ErrorMessages : Throw(msg)
       /\ UNCHANGED resp

\* routes.ts:454-463
StopTokenNotFound ==
    /\ pc = "stopTokenNotFound"
    /\ StopThen(Failure(400, "TOKEN_NOT_FOUND", "route"))
    /\ UNCHANGED <<tokens, req, swapper, swapId, swapState, paymentReceived>>
    /\ UNCHANGED rateVars
    /\ UNCHANGED auxVars

\* routes.ts:473-482
StopNoLightning ==
    /\ pc = "stopNoLightning"
    /\ StopThen(Failure(503, "LIGHTNING_NOT_AVAILABLE", "route"))
    /\ UNCHANGED <<tokens, req, swapper, swapId, swapState, paymentReceived>>
    /\ UNCHANGED rateVars
    /\ UNCHANGED auxVars

\* routes.ts:493-505: await swapper.createSwapQuote(...), then swap.getId()
Quote ==
    /\ pc = "quote"
    /\ \/ \E id \in {"", "swap-1"} :
             /\ calls' = Append(calls, Call("quote", IF id = "" THEN "noid" ELSE "ok"))
             /\ swapId' = id
             /\ swapState' = "QUOTED"
             /\ IF NoSwapId(id)
                THEN Throw({})
                ELSE pc' = "commit" /\ UNCHANGED error
       \/ \E msg \in ErrorMessages :
             /\ calls' = Append(calls, Call("quote", "throw"))
             /\ Throw(msg)
             /\ UNCHANGED <<swapId, swapState>>
    /\ UNCHANGED <<tokens, req, swapper, paymentReceived, resp>>
    /\ UNCHANGED rateVars
    /\ UNCHANGED auxVars

\* routes.ts:522-529: await swap.commit(signer)
Commit ==
    /\ pc = "commit"
    /\ \/ /\ calls' = Append(calls, Call("commit", "ok"))
          /\ swapState' = "COMMITTED"
          /\ pc' = "wait"
          /\ UNCHANGED error
       \/ \E msg \in ErrorMessages :
             /\ calls' = Append(calls, Call("commit", "throw"))
             /\ error' = msg
             /\ pc' = OnCommitRejected
             /\ UNCHANGED swapState
    /\ UNCHANGED <<tokens, req, swapper, swapId, paymentReceived, resp>>
    /\ UNCHANGED rateVars
    /\ UNCHANGED auxVars

\* routes.ts:533-535: await swap.waitForPayment(); the provider decides what
\* state the swap is left in
WaitForPayment ==
    /\ pc = "wait"
    /\ \/ /\ calls' = Append(calls, Call("wait", "true"))
          /\ paymentReceived' = TRUE
          /\ swapState' = "SETTLED"
          /\ pc' = IF PaymentNotReceived(TRUE) THEN "stopTimeout" ELSE "finish"
          /\ UNCHANGED error
       \/ /\ calls' = Append(calls, Call("wait", "false"))
          /\ paymentReceived' = FALSE
          /\ swapState' \in {"COMMITTED", "REFUNDABLE"}
          /\ pc' = IF PaymentNotReceived(FALSE) THEN "stopTimeout" ELSE "finish"
          /\ UNCHANGED error
       \/ \E msg \in ErrorMessages :
             /\ calls' = Append(calls, Call("wait", "throw"))
             /\ Throw(msg)
             /\ UNCHANGED <<paymentReceived, swapState>>
    /\ UNCHANGED <<tokens, req, swapper, swapId, resp>>
    /\ UNCHANGED rateVars
    /\ UNCHANGED auxVars

\* routes.ts:536-557
StopTimeout ==
    /\ pc = "stopTimeout"
    /\ StopThen(TimeoutResponse(swapState))
    /\ UNCHANGED <<tokens, req, swapper, swapId, swapState, paymentReceived>>
    /\ UNCHANGED rateVars
    /\ UNCHANGED auxVars

\* routes.ts:560-592: the swap's details are read (a getter of the provider
\* may throw), the swapper is stopped and the result is sent
Finish ==
    /\ pc = "finish"
    /\ \/ StopThen(SuccessResponse(swapState))
       \/ /\ \E msg \in ErrorMessages : Throw(msg)
          /\ UNCHANGED <<calls, resp>>
    /\ UNCHANGED <<tokens, req, swapper, swapId, swapState, paymentReceived>>
    /\ UNCHANGED rateVars
    /\ UNCHANGED auxVars

\* routes.ts:594-647: cleanup (a failure of stop() is swallowed), then the
\* error response
Catch ==
    /\ pc = "catch"
    /\ calls' = IF CleanupOnError(swapper)
                THEN Append(calls, Call("stop", "swallowed")) ELSE calls
    /\ LET sc == CatchStatusCode(error)
       IN Respond(Failure(sc[1], sc[2], "route"))
    /\ UNCHANGED <<tokens, req, swapper, swapId, swapState, paymentReceived, error>>
    /\ UNCHANGED rateVars
    /\ UNCHANGED auxVars

\* the buckets a client can have at time t under window w and ceiling n:
\* none, or one opened at some t0 <= t that has counted up to the ceiling
Max(a, b) == IF a >= b THEN a ELSE b
ReachableBuckets(t, w, n) ==
    {NoBucket} \cup
    {[present |-> TRUE, count |-> k, resetTime |-> t0 + w] :
        k \in 1..Max(1, n), t0 \in {x \in Times : x <= t}}

\* one request arrives at a server that has been running for a while
Init ==
    /\ now = 500
    /\ windowMs = 500 * MaxWindowTicks
    /\ maxRequests = MaxCeiling
    /\ rateLimitStore \in [Clients -> ReachableBuckets(now, windowMs, maxRequests)]
    /\ rateLimitStore["c2"] = NoBucket
    /\ admitted = [c \in Clients |-> rateLimitStore[c].count]
    /\ lastRl = NoRl
    /\ tokens \in Catalogs
    /\ pc = "parser"
    /\ req \in Requests
    /\ swapper = "null"
    /\ swapId = ""
    /\ swapState = "NONE"
    /\ paymentReceived = FALSE
    /\ error = {}
    /\ calls = <<>>
    /\ resp = NoResp
    /\ AuxIdle

Next ==
    \/ JsonParser
    \/ ValidateJson
    \/ ValidateRequestSize
    \/ RateLimit
    \/ RouteValidate
    \/ Construct
    \/ Initialize
    \/ Resolve
    \/ StopTokenNotFound
    \/ StopNoLightning
    \/ Quote
    \/ Commit
    \/ WaitForPayment
    \/ StopTimeout
    \/ Finish
    \/ Catch

Spec == Init /\ [][Next]_vars

(***************************************************************************)
(* One request to any endpoint of the server, seen by the shape of the     *)
(* response it receives: index.ts:76-115, routes.ts, middleware.ts.        *)
(***************************************************************************)
GetEndpoints == {"GET /health", "GET /balance/:address", "GET /api/atomic-swap/status/:swapId",
                 "GET /unmatched"}
PostEndpoints == {"POST /api/invoice", "POST /api/atomic-swap/quote",
                  "POST /api/atomic-swap/execute", "POST /api/atomic-swap"}
DeprecatedEndpoints == {"POST /api/atomic-swap/quote", "POST /api/atomic-swap/execute",
                        "GET /api/atomic-swap/status/:swapId"}
Endpoints == GetEndpoints \cup PostEndpoints

NodeEnvs == {"production", "development", "test"}

\* the messages of internal failures: the keywords a handler looks for, and
\* the text itself
RawTexts == {"raw-1", "raw-2"}
ErrorTexts == [keywords : ErrorMessages, raw : RawTexts]

\* uuidv4().slice(0, 8), middleware.ts:19
RequestIds == {"req-1", "req-2"}

\* {success: false, error: {code, message, requestId, timestamp}}
Structured(st, c, m, rid) ==
    [NoBody EXCEPT !.status = st, !.code = c, !.message = m, !.requestId = rid]

\* a ResultDTO {success: false, message}, routes.ts:143
Result(st, m) == [NoBody EXCEPT !.status = st, !.message = m]

\* a success response (res.json leaves the status at 200)
Success == [NoBody EXCEPT !.status = 200, !.success = TRUE]

\* the response statements of each route and of the middleware
HealthSites == {"health:ok"}
BalanceSites == {"balance:INVALID_ADDRESS", "balance:catch", "balance:ok"}
InvoiceSites == {"invoice:missing", "invoice:notLightning", "invoice:tooSmall",
                 "invoice:noToken", "invoice:noLightning", "invoice:timeout",
                 "invoice:catch", "invoice:ok"}
DeprecatedSites == {"deprecated:gone"}
AtomicSwapSites == {"swap:MISSING_REQUIRED_FIELDS", "swap:INVALID_AMOUNT",
                    "swap:INVALID_TOKEN_ADDRESS", "swap:TOKEN_NOT_FOUND",
                    "swap:LIGHTNING_NOT_AVAILABLE", "swap:PAYMENT_TIMEOUT",
                    "swap:catch", "swap:ok"}

\* the body sent by the statement named at, for the internal failure t
\* (if it answers one), NODE_ENV env and req.requestId rid
ResponseAt(at, t, env, rid) ==
    CASE at = "health:ok" -> Success
      [] at = "balance:INVALID_ADDRESS" ->
            Structured(400, "INVALID_ADDRESS", "Address must be a valid hex string starting with 0x", rid)
      [] at = "balance:catch" ->
            Structured(500, "BALANCE_QUERY_FAILED", "Failed to retrieve balance", rid)
      [] at = "balance:ok" -> Success
      [] at = "invoice:missing" -> Result(400, "Missing required fields: amountUSD and address")
      [] at = "invoice:notLightning" ->
            Result(400, "This endpoint currently only supports Lightning destinations")
      [] at = "invoice:tooSmall" -> Result(400, "Amount too small - minimum 1 satoshi required")
      [] at = "invoice:noToken" -> Result(400, "WBTC token not available for invoice payments")
      [] at = "invoice:noLightning" -> Result(503, "Lightning network not available")
      [] at = "invoice:timeout" -> Result(200, "Payment timeout - Lightning payment not received")
      [] at = "invoice:catch" -> Result(200, t.raw)
      [] at = "invoice:ok" -> Success
      [] at = "deprecated:gone" -> Result(410, "This endpoint is deprecated.")
      [] at = "swap:MISSING_REQUIRED_FIELDS" ->
            Structured(400, "MISSING_REQUIRED_FIELDS", "Missing required fields", rid)
      [] at = "swap:INVALID_AMOUNT" ->
            Structured(400, "INVALID_AMOUNT", "amountSats must be a positive number", rid)
      [] at = "swap:INVALID_TOKEN_ADDRESS" ->
            Structured(400, "INVALID_TOKEN_ADDRESS", "tokenAddress must be a valid hex string", rid)
      [] at = "swap:TOKEN_NOT_FOUND" ->
            Structured(400, "TOKEN_NOT_FOUND", "Token not found for address", rid)
      [] at = "swap:LIGHTNING_NOT_AVAILABLE" ->
            Structured(503, "LIGHTNING_NOT_AVAILABLE", "Lightning BTC token not available", rid)
      [] at = "swap:PAYMENT_TIMEOUT" ->
            Structured(408, "PAYMENT_TIMEOUT", "Lightning payment not received within timeout", rid)
      [] at = "swap:catch" ->
            LET sc == CatchStatusCode(t.keywords)
            IN [Structured(sc[1], sc[2], "Atomic swap execution failed", rid)
                   EXCEPT !.details = IF env = "development" THEN t.raw ELSE ""]
      [] at = "swap:ok" -> Success
      [] at = "notFound" -> Structured(404, "ENDPOINT_NOT_FOUND", "Endpoint not found", rid)
      [] at = "validateJson" ->
            Structured(400, "INVALID_CONTENT_TYPE", "Content-Type must be application/json", rid)
      [] at = "validateRequestSize" ->
            Structured(413, "REQUEST_TOO_LARGE", "Request body too large (max 1MB)", rid)
      [] at = "rateLimit" -> Structured(429, "RATE_LIMIT_EXCEEDED", "Too many requests", rid)
      [] at = "errorHandler" ->
            LET sc == ErrorHandlerStatusCode("SyntaxError", t.keywords)
                m == CASE sc[2] = "TIMEOUT" -> "Request timeout"
                       [] sc[2] = "RATE_LIMIT" -> "Too many requests"
                       [] OTHER -> "Internal server error"
            IN [Structured(sc[1], sc[2], m, rid)
                   EXCEPT !.details = IF env = "development" THEN t.raw ELSE "",
                          !.stack = IF env = "development" THEN t.raw ELSE ""]

\* res.status(..).json(..) at the statement named s
Send(s) ==
    /\ site' = s
    /\ body' = ResponseAt(s, errorText, nodeEnv, requestId)
    /\ srvPc' = "done"

\* a middleware calls next()
Pass(to) ==
    /\ srvPc' = to
    /\ UNCHANGED <<site, body>>

ServerUnchanged ==
    UNCHANGED <<rateVars, reqVars, cfgVars, clsVars, fwVars, resVars, shutVars, swpVars,
                endpoint, nodeEnv, errorText>>

InitServer ==
    /\ now = 0
    /\ windowMs = 500 * MaxWindowTicks
    /\ maxRequests = MaxCeiling
    /\ rateLimitStore = [c \in Clients |-> NoBucket]
    /\ admitted = [c \in Clients |-> 0]
    /\ lastRl = NoRl
    /\ tokens = [starknet |-> {KnownToken}, lightning |-> TRUE]
    /\ IdleRequest
    /\ srvPc = "parser"
    /\ endpoint \in Endpoints
    /\ nodeEnv \in NodeEnvs
    /\ errorText \in ErrorTexts
    /\ requestId = ""
    /\ site = "none"
    /\ body = NoBody
    /\ ConfigIdle
    /\ ClassifierIdle
    /\ OthersIdle

\* index.ts:78: express.json() reads the body of a POST; its failure goes
\* to errorHandlerMiddleware (index.ts:115) past every other middleware
ServerJsonParser ==
    /\ srvPc = "parser"
    /\ \/ endpoint \in PostEndpoints /\ Send("errorHandler")
       \/ Pass("logger")
    /\ UNCHANGED requestId
    /\ ServerUnchanged

\* index.ts:83, middleware.ts:17-50
RequestLogger ==
    /\ srvPc = "logger"
    /\ requestId' \in RequestIds
    /\ Pass("validateJson")
    /\ ServerUnchanged

\* index.ts:84, middleware.ts:123-139
ServerValidateJson ==
    /\ srvPc = "validateJson"
    /\ \/ endpoint \in PostEndpoints /\ Send("validateJson")
       \/ Pass("validateSize")
    /\ UNCHANGED requestId
    /\ ServerUnchanged

\* index.ts:85, middleware.ts:142-159
ServerValidateRequestSize ==
    /\ srvPc = "validateSize"
    /\ \/ Send("validateRequestSize")
       \/ Pass("rateLimit")
    /\ UNCHANGED requestId
    /\ ServerUnchanged

\* index.ts:86, middleware.ts:167-202
ServerRateLimit ==
    /\ srvPc = "rateLimit"
    /\ \/ Send("rateLimit")
       \/ Pass("route")
    /\ UNCHANGED requestId
    /\ ServerUnchanged

\* a route handler answers by one of its response statements
Route(sites) ==
    /\ \E s \in sites : Send(s)
    /\ UNCHANGED requestId
    /\ ServerUnchanged

\* routes.ts:45-58
HealthRoute ==
    /\ srvPc = "route"
    /\ endpoint = "GET /health"
    /\ Route(HealthSites)

\* routes.ts:88-139
BalanceRoute ==
    /\ srvPc = "route"
    /\ endpoint = "GET /balance/:address"
    /\ Route(BalanceSites)

\* routes.ts:142-247
InvoiceRoute ==
    /\ srvPc = "route"
    /\ endpoint = "POST /api/invoice"
    /\ Route(InvoiceSites)

\* routes.ts:250-297
DeprecatedRoute ==
    /\ srvPc = "route"
    /\ endpoint \in DeprecatedEndpoints
    /\ Route(DeprecatedSites)

\* routes.ts:360-648
AtomicSwapRoute ==
    /\ srvPc = "route"
    /\ endpoint = "POST /api/atomic-swap"
    /\ Route(AtomicSwapSites)

\* index.ts:94-111
NotFoundHandler ==
    /\ srvPc = "route"
    /\ endpoint = "GET /unmatched"
    /\ Route({"notFound"})

NextServer ==
    \/ ServerJsonParser
    \/ RequestLogger
    \/ ServerValidateJson
    \/ ServerValidateRequestSize
    \/ ServerRateLimit
    \/ HealthRoute
    \/ BalanceRoute
    \/ InvoiceRoute
    \/ DeprecatedRoute
    \/ AtomicSwapRoute
    \/ NotFoundHandler

SpecServer == InitServer /\ [][NextServer]_vars

(***************************************************************************)
(* Configuration: validated once by startServer (config.ts) and again by   *)
(* the constructor of every AtomicSwapper (atomicConfig).                  *)
(***************************************************************************)
\* -1 stands for a variable that is not set
Unset == -1
PpmValues == {Unset, 0, 20000, 1000000, 1000001}
TimeoutValues == {Unset, 999, 1000, 60000, 60001}

Environments ==
    [STARKNET_RPC_URL : BOOLEAN, STARKNET_PRIVATE_KEY : BOOLEAN,
     STARKNET_ACCOUNT_ADDRESS : BOOLEAN, NWC_CONNECTION_STRING : BOOLEAN,
     MAX_PRICING_DIFFERENCE_PPM : PpmValues, GET_REQUEST_TIMEOUT : TimeoutValues,
     POST_REQUEST_TIMEOUT : TimeoutValues]

\* process.env.X || d
OrDefault(v, d) == IF v = Unset THEN d ELSE v

\* createDefaultConfig(): the RPC URL and the numbers fall back to defaults
createDefaultConfig(e) ==
    [starknetRpcUrl |-> TRUE,
     starknetPrivateKey |-> e.STARKNET_PRIVATE_KEY,
     starknetAccountAddress |-> e.STARKNET_ACCOUNT_ADDRESS,
     maxPricingDifferencePPM |-> OrDefault(e.MAX_PRICING_DIFFERENCE_PPM, 20000),
     getRequestTimeout |-> OrDefault(e.GET_REQUEST_TIMEOUT, 10000),
     postRequestTimeout |-> OrDefault(e.POST_REQUEST_TIMEOUT, 10000)]

\* config.ts:93-105: the names of the required variables that are missing
MissingAtStartup(e) ==
    {k \in {"STARKNET_PRIVATE_KEY", "STARKNET_ACCOUNT_ADDRESS", "NWC_CONNECTION_STRING"} : ~e[k]}

\* validateConfig(config) of atomicConfig: the message it throws, "" if none
validateConfig(c) ==
    IF ~c.starknetRpcUrl THEN "STARKNET_RPC_URL is required"
    ELSE IF ~c.starknetPrivateKey THEN "STARKNET_PRIVATE_KEY is required for swap operations"
    ELSE IF ~c.starknetAccountAddress
    THEN "STARKNET_ACCOUNT_ADDRESS is required for swap operations"
    ELSE IF c.maxPricingDifferencePPM < 0 \/ c.maxPricingDifferencePPM > 1000000
    THEN "MAX_PRICING_DIFFERENCE_PPM must be between 0 and 1000000"
    ELSE IF c.getRequestTimeout < 1000 \/ c.getRequestTimeout > 60000
    THEN "GET_REQUEST_TIMEOUT must be between 1000 and 60000 milliseconds"
    ELSE IF c.postRequestTimeout < 1000 \/ c.postRequestTimeout > 60000
    THEN "POST_REQUEST_TIMEOUT must be between 1000 and 60000 milliseconds"
    ELSE ""

InitConfig ==
    /\ now = 0
    /\ windowMs = 500 * MaxWindowTicks
    /\ maxRequests = MaxCeiling
    /\ rateLimitStore = [c \in Clients |-> NoBucket]
    /\ admitted = [c \in Clients |-> 0]
    /\ lastRl = NoRl
    /\ tokens = [starknet |-> {KnownToken}, lightning |-> TRUE]
    /\ IdleRequest
    /\ ServerIdle
    /\ ClassifierIdle
    /\ OthersIdle
    /\ processEnv \in Environments
    /\ server = "starting"
    /\ configError = ""

\* index.ts:46-49, 119 and 157-162: validateConfig() of config.ts, then listen;
\* a throw ends the process
StartServer ==
    /\ server = "starting"
    /\ server' = IF MissingAtStartup(processEnv) = {} THEN "listening" ELSE "exited"
    /\ UNCHANGED <<processEnv, configError>>
    /\ UNCHANGED <<rateVars, reqVars, srvVars, clsVars, fwVars, resVars, shutVars, swpVars>>

\* routes.ts:433-436: createDefaultConfig() and new AtomicSwapper(config),
\* whose constructor validates the configuration (atomicSwapper.ts:32-34);
\* a throw is answered by the catch block
ConstructSwapper ==
    /\ server = "listening"
    /\ configError' = validateConfig(createDefaultConfig(processEnv))
    /\ UNCHANGED <<processEnv, server>>
    /\ UNCHANGED <<rateVars, reqVars, srvVars, clsVars, fwVars, resVars, shutVars, swpVars>>

NextConfig ==
    \/ StartServer
    \/ ConstructSwapper

SpecConfig == InitConfig /\ [][NextConfig]_vars

(***************************************************************************)
(* ErrorClassifier, errors.ts:173-243                                      *)
(***************************************************************************)
\* most words in one message
MaxWords == 2

\* the words a message is made of, as far as classify looks
Words == {"network", "Network", "connection", "econnrefused", "rpc", "node", "provider",
          "timeout", "timed out", "insufficient balance", "insufficient funds",
          "config", "configuration", "environment", "missing", "boom"}
Messages == {m \in SUBSET Words : Cardinality(m) \in 1..MaxWords}

\* String.prototype.includes on a message given by its words
Includes(message, needle) ==
    \E w \in message : w = needle \/ (needle = "config" /\ w = "configuration")

\* error.message.toLowerCase(), errors.ts:185
LowerCased_Not(message) == message
LowerCased(message) == {ToLowerCase(w) : w \in message}

\* new AppError(code, message), errors.ts:135-152, built at time t as the
\* object fresh; an empty message is replaced by the default of the code
AppError(c, message, t, fresh) ==
    [kind |-> "AppError", code |-> c, statusCode |-> ErrorStatusMap[c],
     message |-> IF message = {} THEN {c} ELSE message,
     timestamp |-> t, id |-> fresh]

\* errors.ts:179: error instanceof AppError
PassThrough_Never(e) == FALSE
PassThrough(e) == e.kind = "AppError"

\* errors.ts:177-216
classify(e, fallback, t, fresh) ==
    IF PassThrough(e) THEN e
    ELSE IF e.kind = "Error"
    THEN LET message == LowerCased(e.message) IN
         IF Includes(message, "network") \/ Includes(message, "connection")
                \/ Includes(message, "econnrefused")
         THEN AppError("NETWORK_ERROR", e.message, t, fresh)
         ELSE IF Includes(message, "rpc") \/ Includes(message, "node")
                \/ Includes(message, "provider")
         THEN AppError("RPC_CONNECTION_FAILED", e.message, t, fresh)
         ELSE IF Includes(message, "timeout") \/ Includes(message, "timed out")
         THEN AppError("TIMEOUT_ERROR", e.message, t, fresh)
         ELSE IF Includes(message, "insufficient balance")
                \/ Includes(message, "insufficient funds")
         THEN AppError("INSUFFICIENT_BALANCE", e.message, t, fresh)
         ELSE IF Includes(message, "config") \/ Includes(message, "environment")
                \/ Includes(message, "missing")
         THEN AppError("CONFIGURATION_ERROR", e.message, t, fresh)
         ELSE AppError(fallback, e.message, t, fresh)
    ELSE AppError(fallback, e.message, t, fresh)

\* errors.ts:221-230
isRetryable(e) ==
    e.code \in {"NETWORK_ERROR", "TIMEOUT_ERROR", "RPC_CONNECTION_FAILED",
                "LIGHTNING_NOT_AVAILABLE"}

\* what may be handed to classify: an AppError built earlier, an Error, or
\* a thrown value that is no Error (message stands for String(error))
AppErrors == {[AppError(c, m, 0, 0) EXCEPT !.id = 0] : c \in ErrorCode, m \in {{"boom"}, {"network"}}}
Errors == {[NoFailure EXCEPT !.kind = "Error", !.message = m] : m \in Messages}
ThrownValues == {[NoFailure EXCEPT !.kind = "string", !.message = m] : m \in {{"boom"}, {"network"}}}
Failures == AppErrors \cup Errors \cup ThrownValues

FallbackCodes == {"INTERNAL_SERVER_ERROR", "SWAP_EXECUTION_FAILED", "PAYMENT_TIMEOUT"}

InitClassify ==
    /\ now = 500
    /\ windowMs = 500 * MaxWindowTicks
    /\ maxRequests = MaxCeiling
    /\ rateLimitStore = [c \in Clients |-> NoBucket]
    /\ admitted = [c \in Clients |-> 0]
    /\ lastRl = NoRl
    /\ tokens = [starknet |-> {KnownToken}, lightning |-> TRUE]
    /\ IdleRequest
    /\ ServerIdle
    /\ ConfigIdle
    /\ OthersIdle
    /\ failure \in Failures
    /\ fallbackCode \in FallbackCodes
    /\ classified = NoFailure
    /\ reclassified = NoFailure
    /\ retryable = "unknown"

ClassifyUnchanged ==
    UNCHANGED <<rateVars, reqVars, srvVars, cfgVars, fwVars, resVars, shutVars, swpVars,
                failure, fallbackCode>>

\* ErrorClassifier.classify(failure, fallbackCode)
Classify ==
    /\ classified = NoFailure
    /\ classified' = classify(failure, fallbackCode, now, 1)
    /\ UNCHANGED <<reclassified, retryable>>
    /\ ClassifyUnchanged

\* ErrorClassifier.classify(classified, fb), with any fallback code
Reclassify ==
    /\ classified # NoFailure
    /\ reclassified = NoFailure
    /\ \E fb \in FallbackCodes : reclassified' = classify(classified, fb, now, 2)
    /\ UNCHANGED <<classified, retryable>>
    /\ ClassifyUnchanged

\* ErrorClassifier.isRetryable(classified)
IsRetryable ==
    /\ classified # NoFailure
    /\ retryable = "unknown"
    /\ retryable' = IF isRetryable(classified) THEN "true" ELSE "false"
    /\ UNCHANGED <<classified, reclassified>>
    /\ ClassifyUnchanged

NextClassify ==
    \/ Tick
    \/ Classify
    \/ Reclassify
    \/ IsRetryable

SpecClassify == InitClassify /\ [][NextClassify]_vars

(***************************************************************************)
(* Token resolution of POST /api/atomic-swap, src/src/routes.ts:443-483,   *)
(* run twice for the same tokenAddress. The catalog is what the provider   *)
(* handed to the AtomicSwapper; Object.values keeps the entries' order.    *)
(***************************************************************************)
\* entries per chain in a catalog
MaxEntries == 2

Addresses == {"0xA", "0xB"}
StarknetEntries == [address : Addresses, ticker : {"ETH", "STRK"}]
BitcoinEntries == [ticker : {"BTC"}, lightning : BOOLEAN]
SeqsOf(S) == UNION {[1..k -> S] : k \in 0..MaxEntries}
TokenCatalogs == [STARKNET : SeqsOf(StarknetEntries), BITCOIN : SeqsOf(BitcoinEntries)]

\* Array.prototype.find: the first element that satisfies the test (is one
\* of passing), <<>> for undefined
FindLast(entries, passing) ==
    LET hits == {i \in 1..Len(entries) : entries[i] \in passing}
    IN IF hits = {} THEN <<>> ELSE <<entries[CHOOSE i \in hits : \A j \in hits : j <= i]>>
Find(entries, passing) ==
    LET hits == {i \in 1..Len(entries) : entries[i] \in passing}
    IN IF hits = {} THEN <<>> ELSE <<entries[CHOOSE i \in hits : \A j \in hits : i <= j]>>

\* routes.ts:443-483: tokenInfo, lightningToken and the response when one is missing
ResolveTokens_ByClock(cat, tokenAddress) ==
    LET same == {t \in StarknetEntries : t.address = tokenAddress}
        lightning == {t \in BitcoinEntries : t.lightning = TRUE}
        tokenInfo == IF now = 0 THEN Find(cat.STARKNET, same) ELSE FindLast(cat.STARKNET, same)
        lightningToken == Find(cat.BITCOIN, lightning)
    IN IF tokenInfo = <<>>
       THEN [code |-> "TOKEN_NOT_FOUND", status |-> 400, source |-> <<>>, destination |-> <<>>]
       ELSE IF lightningToken = <<>>
       THEN [code |-> "LIGHTNING_NOT_AVAILABLE", status |-> 503, source |-> <<>>,
             destination |-> <<>>]
       ELSE [code |-> "", status |-> 0, source |-> tokenInfo, destination |-> lightningToken]
ResolveTokens(cat, tokenAddress) ==
    LET same == {t \in StarknetEntries : t.address = tokenAddress}
        lightning == {t \in BitcoinEntries : t.lightning = TRUE}
        tokenInfo == Find(cat.STARKNET, same)
        lightningToken == Find(cat.BITCOIN, lightning)
    IN IF tokenInfo = <<>>
       THEN [code |-> "TOKEN_NOT_FOUND", status |-> 400, source |-> <<>>, destination |-> <<>>]
       ELSE IF lightningToken = <<>>
       THEN [code |-> "LIGHTNING_NOT_AVAILABLE", status |-> 503, source |-> <<>>,
             destination |-> <<>>]
       ELSE [code |-> "", status |-> 0, source |-> tokenInfo, destination |-> lightningToken]

ResolveUnchanged ==
    /\ UNCHANGED <<windowMs, maxRequests, rateLimitStore, admitted, lastRl>>
    /\ UNCHANGED reqVars
    /\ UNCHANGED <<srvVars, cfgVars, clsVars, fwVars, shutVars, swpVars>>

\* Array.prototype.reverse, for a catalog that lists its entries in the other order
Reverse(entries) == [i \in 1..Len(entries) |-> entries[Len(entries) + 1 - i]]

\* the catalogs a change of the provider's can turn cat into
ChangedCatalogs(cat) ==
    {[cat EXCEPT !.STARKNET = Reverse(@)]}
        \cup (IF cat.STARKNET = <<>> THEN {} ELSE {[cat EXCEPT !.STARKNET = Tail(@)]})
        \cup (IF cat.BITCOIN = <<>> THEN {} ELSE {[cat EXCEPT !.BITCOIN = Tail(@)]})

InitResolve ==
    /\ now = 0
    /\ windowMs = 0
    /\ maxRequests = 0
    /\ rateLimitStore = [c \in Clients |-> NoBucket]
    /\ admitted = [c \in Clients |-> 0]
    /\ lastRl = NoRl
    /\ tokens = [starknet |-> {KnownToken}, lightning |-> TRUE]
    /\ IdleRequest
    /\ ServerIdle /\ ConfigIdle /\ ClassifierIdle /\ FixedWindowIdle
    /\ ShutdownIdle /\ SwapperIdle
    /\ catalog \in TokenCatalogs
    /\ asked = ""
    /\ firstRoute = NoRoute
    /\ secondRoute = NoRoute
    /\ changed = FALSE

\* between the two resolutions the provider publishes another catalog
LoadCatalog ==
    /\ firstRoute # NoRoute
    /\ secondRoute = NoRoute
    /\ ~changed
    /\ \E cat \in ChangedCatalogs(catalog) : cat # catalog /\ catalog' = cat
    /\ changed' = TRUE
    /\ UNCHANGED <<now, asked, firstRoute, secondRoute>>
    /\ ResolveUnchanged

\* routes.ts:443-483 for a request that carries tokenAddress a
ResolveFirst(a) ==
    /\ firstRoute = NoRoute
    /\ asked' = a
    /\ firstRoute' = ResolveTokens(catalog, a)
    /\ UNCHANGED <<now, catalog, secondRoute, changed>>
    /\ ResolveUnchanged

\* the same lines for a later request that carries the same tokenAddress
ResolveAgain ==
    /\ firstRoute # NoRoute
    /\ secondRoute = NoRoute
    /\ secondRoute' = ResolveTokens(catalog, asked)
    /\ UNCHANGED <<now, catalog, asked, firstRoute, changed>>
    /\ ResolveUnchanged

\* time passes between the requests
ResolveTick ==
    /\ firstRoute # NoRoute
    /\ secondRoute = NoRoute
    /\ now + 500 \in Times
    /\ now' = now + 500
    /\ UNCHANGED resVars
    /\ ResolveUnchanged

NextResolve ==
    \/ LoadCatalog
    \/ \E a \in Addresses : ResolveFirst(a)
    \/ ResolveAgain
    \/ ResolveTick

SpecResolve == InitResolve /\ [][NextResolve]_vars

(***************************************************************************)
(* Graceful shutdown, src/src/index.ts:132-155: on SIGTERM or SIGINT the   *)
(* handler calls server.close(callback) and arms a 10-second timer. The    *)
(* callback runs process.exit(0) when the server has closed, the timer     *)
(* runs process.exit(1). Clients open and end connections as they please.  *)
(***************************************************************************)
\* connections open at a time
MaxConnections == 3
\* signals delivered in one behaviour
MaxSignals == 2
\* index.ts:150: the forced-shutdown delay
forceShutdownMs == 10000
\* the timers' clock advances by forceShutdownMs / TimerSteps
TimerSteps == 4

\* index.ts:147-150: setTimeout(() => process.exit(1), 10000)
SetTimeout_Never(armed, ms) == armed
SetTimeout(armed, ms) == Append(armed, ms)

ShutdownUnchanged ==
    /\ UNCHANGED rateVars
    /\ UNCHANGED reqVars
    /\ UNCHANGED <<srvVars, processEnv, configError, clsVars, fwVars, resVars, swpVars>>

\* index.ts:119: the server listens; rate limiting is as index.ts:86 sets it
InitShutdown ==
    /\ InitRate
    /\ windowMs = 500 * MaxWindowTicks
    /\ maxRequests = MaxCeiling

\* a client opens a connection and sends a request (a swap that waits for
\* its payment keeps it open)
Connect ==
    /\ server = "listening"
    /\ ~closing
    /\ connections < MaxConnections
    /\ connections' = connections + 1
    /\ UNCHANGED <<server, closing, timers, exitCode, signals>>
    /\ ShutdownUnchanged

\* a response is sent, or the client gives up, and the connection ends
Disconnect ==
    /\ server = "listening"
    /\ connections > 0
    /\ connections' = connections - 1
    /\ UNCHANGED <<server, closing, timers, exitCode, signals>>
    /\ ShutdownUnchanged

\* index.ts:132-151: gracefulShutdown(signal)
GracefulShutdown ==
    /\ server = "listening"
    /\ signals < MaxSignals
    /\ signals' = signals + 1
    /\ closing' = TRUE
    /\ timers' = SetTimeout(timers, forceShutdownMs)
    /\ UNCHANGED <<server, connections, exitCode>>
    /\ ShutdownUnchanged

\* index.ts:136-142: the callback of server.close, run once the server
\* holds no connection
ServerClosed ==
    /\ server = "listening"
    /\ closing
    /\ connections = 0
    /\ server' = "exited"
    /\ exitCode' = 0
    /\ UNCHANGED <<connections, closing, timers, signals>>
    /\ ShutdownUnchanged

\* time passes on the armed timers; none is overrun
TimerTick ==
    /\ server = "listening"
    /\ timers # <<>>
    /\ \A i \in 1..Len(timers) : timers[i] > 0
    /\ timers' = [i \in 1..Len(timers) |-> timers[i] - (forceShutdownMs \div TimerSteps)]
    /\ UNCHANGED <<server, connections, closing, exitCode, signals>>
    /\ ShutdownUnchanged

\* index.ts:147-150: the timer's callback
ForcedShutdown ==
    /\ server = "listening"
    /\ \E i \in 1..Len(timers) : timers[i] <= 0
    /\ server' = "exited"
    /\ exitCode' = 1
    /\ UNCHANGED <<connections, closing, timers, signals>>
    /\ ShutdownUnchanged

NextShutdown ==
    \/ Connect
    \/ Disconnect
    \/ GracefulShutdown
    \/ ServerClosed
    \/ TimerTick
    \/ ForcedShutdown

\* the event loop runs a due timer, and time does not stop
SpecShutdown ==
    /\ InitShutdown
    /\ [][NextShutdown]_vars
    /\ WF_vars(TimerTick)
    /\ WF_vars(ForcedShutdown)

(***************************************************************************)
(* One AtomicSwapper, src/src/atomicSwapper.ts: initialize() entered by    *)
(* callers that may overlap (every await lets another caller run), and     *)
(* the methods that need an initialised swapper.                           *)
(***************************************************************************)
\* newSwapper()/init() runs in one behaviour
MaxRuns == 3

\* the methods that begin with if (!this.isInitialized) throw, lines 283-450 and 617-622
GuardedMethods == {"getSwapLimits", "createSwapQuote", "getSpendableBalance",
                   "getBitcoinSpendableBalance", "parseAddress", "getRefundableSwaps",
                   "getClaimableSwaps", "getSwapById", "getSwapper"}
\* lines 276-278 and 462-487: methods without the guard
UnguardedMethods == {"getAvailableTokens", "getStarknetSigner"}

\* the guard of a method: throw new Error("Swapper not initialized")
ThrowsNotInitialized(method, ready) == method \in GuardedMethods /\ ~ready

\* line 100 is reached only when nothing before it threw
InitializedAfter_Always(ready, ok) == TRUE
InitializedAfter(ready, ok) == ready \/ ok

\* line 46: if (this.isInitialized) return
AlreadyInitialized(ready) == ready

SwapperUnchanged ==
    /\ UNCHANGED rateVars
    /\ UNCHANGED reqVars
    /\ UNCHANGED <<srvVars, cfgVars, clsVars, fwVars, resVars, shutVars>>

\* lines 45-85: a caller enters initialize(); unless the swapper is
\* initialised it creates the SDK swapper and starts its init(), then awaits
InitializeEnter(p) ==
    /\ initPc[p] \in {"idle", "returned", "skipped", "failed"}
    /\ IF AlreadyInitialized(isInitialized)
       THEN /\ initPc' = [initPc EXCEPT ![p] = "skipped"]
            /\ UNCHANGED <<sdkSwapper, runs, failedRuns>>
       ELSE /\ runs < MaxRuns
            /\ runs' = runs + 1
            /\ \/ /\ sdkSwapper' = runs + 1
                  /\ initPc' = [initPc EXCEPT ![p] = "init"]
                  /\ UNCHANGED failedRuns
               \/ /\ failedRuns' = failedRuns + 1      \* newSwapper() throws
                  /\ initPc' = [initPc EXCEPT ![p] = "failed"]
                  /\ UNCHANGED sdkSwapper
    /\ UNCHANGED <<isInitialized, completed, lastCall>>
    /\ SwapperUnchanged

\* line 85: await this.swapper.init() settles
InitSettles(p) ==
    /\ initPc[p] = "init"
    /\ \/ /\ initPc' = [initPc EXCEPT ![p] = "signer"]
          /\ UNCHANGED failedRuns
       \/ /\ initPc' = [initPc EXCEPT ![p] = "failed"]
          /\ failedRuns' = failedRuns + 1
    /\ UNCHANGED <<isInitialized, sdkSwapper, runs, completed, lastCall>>
    /\ SwapperUnchanged

\* lines 88-107: the signer is created (awaited), then isInitialized = true;
\* an error on the way is rethrown
SignerSettles(p) ==
    /\ initPc[p] = "signer"
    /\ \E ok \in BOOLEAN :
          /\ isInitialized' = InitializedAfter(isInitialized, ok)
          /\ initPc' = [initPc EXCEPT ![p] = IF ok THEN "returned" ELSE "failed"]
          /\ failedRuns' = IF ok THEN failedRuns ELSE failedRuns + 1
          /\ completed' = (completed \/ ok)
    /\ UNCHANGED <<sdkSwapper, runs, lastCall>>
    /\ SwapperUnchanged

\* a method of the AtomicSwapper is called
CallMethod(method) ==
    /\ lastCall' = [method |-> method,
                    threw |-> ThrowsNotInitialized(method, isInitialized),
                    ready |-> isInitialized, completed |-> completed]
    /\ UNCHANGED <<isInitialized, sdkSwapper, initPc, runs, failedRuns, completed>>
    /\ SwapperUnchanged

InitSwapper == InitShutdown

NextSwapper ==
    \/ \E p \in Callers : InitializeEnter(p)
    \/ \E p \in Callers : InitSettles(p)
    \/ \E p \in Callers : SignerSettles(p)
    \/ \E method \in GuardedMethods \cup UnguardedMethods : CallMethod(method)

SpecSwapper == InitSwapper /\ [][NextSwapper]_vars

(***************************************************************************)
(* POST /api/invoice, src/src/routes.ts:142-248: the same swap, driven     *)
(* from an invoice. Its try block holds the AtomicSwapper in a const of    *)
(* its own; the catch block only sets the message of the result.           *)
(***************************************************************************)
\* invoice.amountUSD: absent, too small for one satoshi, or enough; and
\* invoice.address: absent, a Starknet address, or a Lightning destination
InvoiceRequests ==
    [client : {"c1"}, amountUSD : {"undefined", "small", "enough"},
     address : {"undefined", "starknet", "lightning"}]

\* lines 150-176: the message of the check the invoice fails, "" for none
InvoiceValidation(invoice) ==
    IF invoice.amountUSD = "undefined" \/ invoice.address = "undefined"
    THEN "Missing required fields: amountUSD and address"
    ELSE IF invoice.address # "lightning"
    THEN "This endpoint currently only supports Lightning destinations"
    ELSE IF invoice.amountUSD = "small"
    THEN "Amount too small - minimum 1 satoshi required"
    ELSE ""

\* res.status(st).json(result) with result.success as given
InvoiceResult(st, ok) == [NoResp EXCEPT !.status = st, !.success = ok, !.by = "invoice"]

\* where the handler goes after an awaited call of the provider resolved
AfterProviderCall == [invQuote |-> "invCommit", invCommit |-> "invWait"]

\* the responses of the three await swapper.stop() of the try block
AfterStop(at, received) ==
    IF at = "invStopNoToken" THEN InvoiceResult(400, FALSE)
    ELSE IF at = "invStopNoLightning" THEN InvoiceResult(503, FALSE)
    ELSE InvoiceResult(200, received)

InitInvoice ==
    /\ now = 500
    /\ windowMs = 500 * MaxWindowTicks
    /\ maxRequests = MaxCeiling
    /\ rateLimitStore = [c \in Clients |-> NoBucket]
    /\ admitted = [c \in Clients |-> 0]
    /\ lastRl = NoRl
    /\ tokens \in Catalogs
    /\ pc = "invoice"
    /\ req \in InvoiceRequests
    /\ swapper = "null"
    /\ swapId = ""
    /\ swapState = "NONE"
    /\ paymentReceived = FALSE
    /\ error = {}
    /\ calls = <<>>
    /\ resp = NoResp
    /\ AuxIdle

\* lines 146-192: the checks of the invoice, then new AtomicSwapper(config),
\* whose constructor throws on a configuration it refuses
InvoiceValidate ==
    /\ pc = "invoice"
    /\ IF InvoiceValidation(req) # ""
       THEN Respond(InvoiceResult(400, FALSE)) /\ UNCHANGED <<swapper, error>>
       ELSE \E ok \in BOOLEAN :
               IF ok
               THEN swapper' = "constructed" /\ pc' = "invInitialize"
                        /\ UNCHANGED <<resp, error>>
               ELSE Throw({}) /\ UNCHANGED <<swapper, resp>>
    /\ UNCHANGED <<tokens, req, swapId, swapState, paymentReceived, calls>>
    /\ UNCHANGED rateVars
    /\ UNCHANGED auxVars

\* line 193: await swapper.initialize()
InvoiceInitialize ==
    /\ pc = "invInitialize"
    /\ \/ /\ swapper' = "initialized"
          /\ pc' = "invResolve"
          /\ UNCHANGED error
       \/ /\ \E msg \in ErrorMessages : Throw(msg)
          /\ UNCHANGED swapper
    /\ calls' = Append(calls, Call("initialize", "done"))
    /\ UNCHANGED <<tokens, req, swapId, swapState, paymentReceived, resp>>
    /\ UNCHANGED rateVars
    /\ UNCHANGED auxVars

\* lines 195-209: the two catalog lookups
InvoiceResolve ==
    /\ pc = "invResolve"
    /\ pc' = IF KnownToken \notin tokens.starknet THEN "invStopNoToken"
             ELSE IF ~LightningFound(tokens) THEN "invStopNoLightning"
             ELSE "invQuote"
    /\ UNCHANGED <<tokens, req, swapper, swapId, swapState, paymentReceived, error,
                   calls, resp>>
    /\ UNCHANGED rateVars
    /\ UNCHANGED auxVars

\* lines 211-221: await swapper.createSwapQuote(...) and await swap.commit(signer)
InvoiceProviderCall(op) ==
    /\ pc = op
    /\ \/ /\ calls' = Append(calls, Call(IF op = "invQuote" THEN "quote" ELSE "commit", "ok"))
          /\ swapState' = IF op = "invQuote" THEN "QUOTED" ELSE "COMMITTED"
          /\ pc' = AfterProviderCall[op]
          /\ UNCHANGED error
       \/ \E msg \in ErrorMessages :
             /\ calls' = Append(calls, Call(IF op = "invQuote" THEN "quote" ELSE "commit",
                                            "throw"))
             /\ Throw(msg)
             /\ UNCHANGED swapState
    /\ UNCHANGED <<tokens, req, swapper, swapId, paymentReceived, resp>>
    /\ UNCHANGED rateVars
    /\ UNCHANGED auxVars

\* line 222: await swap.waitForPayment()
InvoiceWaitForPayment ==
    /\ pc = "invWait"
    /\ \/ \E received \in BOOLEAN :
             /\ calls' = Append(calls, Call("wait", IF received THEN "true" ELSE "false"))
             /\ paymentReceived' = received
             /\ swapState' \in (IF received THEN {"SETTLED"} ELSE {"COMMITTED", "REFUNDABLE"})
             /\ pc' = "invStop"
             /\ UNCHANGED error
       \/ \E msg \in ErrorMessages :
             /\ calls' = Append(calls, Call("wait", "throw"))
             /\ Throw(msg)
             /\ UNCHANGED <<paymentReceived, swapState>>
    /\ UNCHANGED <<tokens, req, swapper, swapId, resp>>
    /\ UNCHANGED rateVars
    /\ UNCHANGED auxVars

\* lines 199-201, 206-208 and 224-247: await swapper.stop(), then the
\* response of that exit; a rejection of stop() goes to the catch block
InvoiceStop ==
    /\ pc \in {"invStopNoToken", "invStopNoLightning", "invStop"}
    /\ StopThen(AfterStop(pc, paymentReceived))
    /\ UNCHANGED <<tokens, req, swapper, swapId, swapState, paymentReceived>>
    /\ UNCHANGED rateVars
    /\ UNCHANGED auxVars

\* lines 241-247: the catch block sets result.message; res.json(result)
\* answers with status 200 and success: false
InvoiceCatch ==
    /\ pc = "catch"
    /\ Respond(InvoiceResult(200, FALSE))
    /\ UNCHANGED <<tokens, req, swapper, swapId, swapState, paymentReceived, error, calls>>
    /\ UNCHANGED rateVars
    /\ UNCHANGED auxVars

NextInvoice ==
    \/ InvoiceValidate
    \/ InvoiceInitialize
    \/ InvoiceResolve
    \/ \E op \in DOMAIN AfterProviderCall : InvoiceProviderCall(op)
    \/ InvoiceWaitForPayment
    \/ InvoiceStop
    \/ InvoiceCatch

SpecInvoice == InitInvoice /\ [][NextInvoice]_vars

(***************************************************************************)
(* Properties of POST /api/atomic-swap, checked under Spec.                *)
(***************************************************************************)
Done == pc = "done"
Called(op, result) == \E i \in 1..Len(calls) : calls[i] = Call(op, result)
Invoked(op) == \E i \in 1..Len(calls) : calls[i].op = op
TimesInvoked(op) == Cardinality({i \in 1..Len(calls) : calls[i].op = op})
IsProviderOp(c) == c.op \in {"quote", "commit", "wait"}
ProviderCalls == SelectSeq(calls, IsProviderOp)

\* C1: a success response (HTTP 200, success:true) is sent only when, in
\* this order, createSwapQuote returned a swap with a non-empty id, commit
\* resolved and waitForPayment returned true.
C1_SuccessOnlyAfterQuoteCommitPayment ==
    resp.success =>
        /\ resp.status = 200
        /\ swapId # ""
        /\ ProviderCalls = <<Call("quote", "ok"), Call("commit", "ok"), Call("wait", "true")>>

C1_Witness == Done /\ resp.success /\ resp.finalState = "SETTLED"

\* C2: once commit succeeded and the payment was not received,
\* the response is 408 PAYMENT_TIMEOUT and the session ends REFUNDABLE,
\* never left committed.
C2_TimeoutEndsRefundable ==
    (Done /\ Called("commit", "ok") /\ Called("wait", "false")) =>
        /\ resp.status = 408
        /\ resp.code = "PAYMENT_TIMEOUT"
        /\ swapState = "REFUNDABLE"

\* C4: within one request the provider operations happen in the order
\* quote, commit, wait: commit only after createSwapQuote returned a swap
\* with a non-empty id, waitForPayment only after commit resolved, and
\* a step that failed is the last provider operation of the request.
C4_QuoteCommitWaitInOrder ==
    \A i \in 1..Len(ProviderCalls) :
        LET c == ProviderCalls[i] IN
        /\ c.op = "quote" => i = 1
        /\ c.op = "commit" => i = 2 /\ ProviderCalls[1] = Call("quote", "ok") /\ swapId # ""
        /\ c.op = "wait" => i = 3 /\ ProviderCalls[2] = Call("commit", "ok")
        /\ c.result \in {"throw", "noid"} => i = Len(ProviderCalls)

C4_Witness == Done /\ Len(ProviderCalls) = 3 /\ Called("wait", "throw")

\* C5: once an AtomicSwapper has been constructed, swapper.stop() has been
\* invoked by the time the response is sent, on every exit path.
C5_StoppedBeforeResponse ==
    (resp.status # 0 /\ swapper # "null") => Invoked("stop")

C5_Witness ==
    Done /\ swapper = "constructed" /\ resp.status = 503 /\ Invoked("stop")

\* C6: createSwapQuote, commit and waitForPayment are each invoked at most
\* once in a request, whatever failure any of them reports.
C6_EachProviderCallAtMostOnce ==
    \A op \in {"quote", "commit", "wait"} : TimesInvoked(op) <= 1

C6_Witness == Done /\ Called("commit", "throw") /\ resp.code = "NETWORK_ERROR"

(***************************************************************************)
(* Properties of the admission checks, checked under Spec.                 *)
(***************************************************************************)
AdmissionCodes == {"MISSING_REQUIRED_FIELDS", "INVALID_AMOUNT", "INVALID_TOKEN_ADDRESS",
                   "INVALID_CONTENT_TYPE", "REQUEST_TOO_LARGE"}

\* whether the fields f of a request r break the admission rule named by a
\* code (a tokenAddress that is no string is left to the handler's throw)
Violates(code, r, f) ==
    CASE code = "MISSING_REQUIRED_FIELDS" -> MissingRequiredFields(f)
      [] code = "INVALID_AMOUNT"          -> InvalidAmount(ParseAmount(f.amountSats))
      [] code = "INVALID_TOKEN_ADDRESS"   ->
             f.tokenAddress.kind = "string" /\ InvalidTokenAddress(f.tokenAddress)
      [] code = "INVALID_CONTENT_TYPE"    -> InvalidContentType(r)
      [] code = "REQUEST_TOO_LARGE"       -> RequestTooLarge(r)

\* the code of the first rule of the order that the request breaks
FirstViolated(order, r, f) ==
    LET hits == {i \in 1..Len(order) : Violates(order[i], r, f)}
    IN IF hits = {} THEN "NONE"
       ELSE order[CHOOSE i \in hits : \A j \in hits : i <= j]

StatedOrder == <<"MISSING_REQUIRED_FIELDS", "INVALID_AMOUNT", "INVALID_TOKEN_ADDRESS",
                 "INVALID_CONTENT_TYPE", "REQUEST_TOO_LARGE">>
AppliedOrder == <<"INVALID_CONTENT_TYPE", "REQUEST_TOO_LARGE", "MISSING_REQUIRED_FIELDS",
                  "INVALID_AMOUNT", "INVALID_TOKEN_ADDRESS">>

\* C9 as stated: a request refused by an admission rule is refused with the
\* code of the first rule it breaks in the order MISSING_REQUIRED_FIELDS,
\* INVALID_AMOUNT, INVALID_TOKEN_ADDRESS, INVALID_CONTENT_TYPE,
\* REQUEST_TOO_LARGE.
C9_StatedOrderDecides ==
    (Done /\ resp.code \in AdmissionCodes) => resp.code = FirstViolated(StatedOrder, req, req)

\* C9 as amended: for a request that the body parser and the rate limiter
\* let through, the code is that of the first rule broken in the order
\* INVALID_CONTENT_TYPE, REQUEST_TOO_LARGE, MISSING_REQUIRED_FIELDS,
\* INVALID_AMOUNT, INVALID_TOKEN_ADDRESS, the three field rules being
\* applied to the parsed body (empty unless the request declares JSON).
C9_AppliedOrderDecides ==
    (Done /\ resp.by \notin {"errorHandlerMiddleware", "rateLimitMiddleware"}) =>
        LET first == FirstViolated(AppliedOrder, req, Body(req)) IN
        /\ first # "NONE" => resp.code = first
        /\ resp.code \in AdmissionCodes => resp.code = first

C9_Witness ==
    /\ Done
    /\ resp.code = "INVALID_AMOUNT"
    /\ Violates("INVALID_TOKEN_ADDRESS", req, Body(req))
    /\ ~Violates("MISSING_REQUIRED_FIELDS", req, Body(req))

\* a string that is a decimal integer: an optional sign, then digits only
StringIsInteger(s) ==
    LET first == IF Len(s) > 0 /\ s[1] = "-" THEN 2 ELSE 1
    IN first <= Len(s) /\ \A i \in first..Len(s) : IsDigit(s[i])

\* amountSats is given and is not a positive integer: zero, negative,
\* fractional, or a string that is not a number
NotPositiveInteger(v) ==
    CASE v.kind = "undefined" -> FALSE
      [] v.kind = "number"    -> v.halves <= 0 \/ v.halves % 2 # 0
      [] v.kind = "string"    -> ~StringIsInteger(v.chars) \/ ParseInt(v.chars).halves <= 0

\* the request reached the route handler with a parsed JSON body
ReachedRoute ==
    req.contentType = "application/json"
        /\ pc \notin {"parser", "validateJson", "validateSize", "rateLimit"}
        /\ resp.by \in {"none", "route"}

\* C10: a request whose other required fields are present and whose
\* amountSats is not a positive integer is rejected with HTTP 400
\* INVALID_AMOUNT, and no AtomicSwapper is constructed for it.
C10_InvalidAmountRejected ==
    (ReachedRoute /\ req.lightningDestination /\ req.tokenAddress.kind = "string"
       /\ req.tokenAddress.length > 0 /\ NotPositiveInteger(req.amountSats)) =>
        /\ swapper = "null"
        /\ Done => resp.status = 400 /\ resp.code = "INVALID_AMOUNT"

(***************************************************************************)
(* Properties of the rate limiter, checked under SpecRate.                 *)
(***************************************************************************)
\* C7: after exactly N requests of a client were admitted in one window,
\* its next request up to and including the window end is rejected with
\* 429 RATE_LIMIT_EXCEEDED and a strictly positive retryAfter and next() is
\* not called; issued after the window has rolled over it is admitted and
\* opens a new window with count 1.
C7_RejectedWithPositiveRetryAfter ==
    (lastRl.client # "none" /\ lastRl.pre.present /\ lastRl.preAdmitted = maxRequests) =>
        IF lastRl.at <= lastRl.pre.resetTime
        THEN /\ ~lastRl.next
             /\ lastRl.status = 429
             /\ lastRl.code = "RATE_LIMIT_EXCEEDED"
             /\ lastRl.retryAfter > 0
        ELSE /\ lastRl.next
             /\ rateLimitStore[lastRl.client] = NewWindow(lastRl.at, windowMs)
             /\ rateLimitStore[lastRl.client].count = 1

\* C8 as stated: for every window and every ceiling N, whatever the order
\* in which the clients' requests arrive, no bucket counts more than N and
\* no more than N requests of a client are admitted in one window.
C8_NeverOverCeiling ==
    \A c \in Clients : rateLimitStore[c].count <= maxRequests /\ admitted[c] <= maxRequests

\* C8 as amended: the same for every ceiling N of at least 1 (a request
\* that opens a window is admitted and counted without a look at N).
C8_NeverOverPositiveCeiling ==
    maxRequests >= 1 =>
        \A c \in Clients : rateLimitStore[c].count <= maxRequests /\ admitted[c] <= maxRequests

C8_Witness ==
    /\ maxRequests >= 2
    /\ lastRl.status = 429
    /\ \A c \in Clients : rateLimitStore[c].count = maxRequests /\ admitted[c] = maxRequests

(***************************************************************************)
(* Properties of the token checks and of the error answers, under Spec.    *)
(***************************************************************************)
\* a 66-character 0x-prefixed hexadecimal string
WellFormedToken(t) ==
    t.kind = "string" /\ t.startsWith0x /\ t.length = 66 /\ t.hex

\* the amount the handler reads is a number above zero
ValidAmount(v) == ~InvalidAmount(ParseAmount(v))

\* C11: a request whose required fields are present and whose tokenAddress
\* is not a 66-character 0x-prefixed hexadecimal string is answered 400
\* INVALID_TOKEN_ADDRESS whether or not the amount is valid; INVALID_AMOUNT
\* is never reported for a valid amount, INVALID_TOKEN_ADDRESS never for a
\* well-formed token address.
C11_MalformedTokenRejected ==
    /\ (Done /\ ReachedRoute /\ ~MissingRequiredFields(req)
          /\ ~WellFormedToken(req.tokenAddress)) =>
            resp.status = 400 /\ resp.code = "INVALID_TOKEN_ADDRESS"
    /\ (Done /\ resp.code = "INVALID_AMOUNT") => ~ValidAmount(Body(req).amountSats)
    /\ (Done /\ resp.code = "INVALID_TOKEN_ADDRESS") => ~WellFormedToken(Body(req).tokenAddress)

\* C12: a well-formed token address absent from the Starknet catalog is
\* answered 400 TOKEN_NOT_FOUND, a Bitcoin catalog without a Lightning
\* token 503 LIGHTNING_NOT_AVAILABLE, and in both cases createSwapQuote,
\* commit and waitForPayment are never invoked.
C12_ResolutionFailureAnswered ==
    (Done /\ swapper = "initialized") =>
        /\ ~TokenFound(tokens, Body(req).tokenAddress) =>
              /\ resp.status = 400 /\ resp.code = "TOKEN_NOT_FOUND"
              /\ ProviderCalls = <<>>
        /\ (TokenFound(tokens, Body(req).tokenAddress) /\ ~LightningFound(tokens)) =>
              /\ resp.status = 503 /\ resp.code = "LIGHTNING_NOT_AVAILABLE"
              /\ ProviderCalls = <<>>

\* C13: every error response carries a code of the ErrorCode enumeration
\* and its HTTP status equals ErrorStatusMap[code].
C13_StatusFollowsErrorStatusMap ==
    (resp.status # 0 /\ ~resp.success) =>
        /\ resp.code \in ErrorCode
        /\ resp.status = ErrorStatusMap[resp.code]

\* the message of the caught error reports a network failure, in any case
ReportsNetworkFailure(msg) == \E k \in msg : ToLowerCase(k) = "network"

\* createSwapQuote, commit or waitForPayment threw
ProviderStepFailed == \E op \in {"quote", "commit", "wait"} : Called(op, "throw")

\* C14: when quote creation or a later step fails with an error whose
\* message reports a network failure, in any letter case, the response is
\* 503 NETWORK_ERROR and swapper.stop() has been called.
C14_NetworkFailureAnswered503 ==
    (Done /\ ProviderStepFailed /\ ReportsNetworkFailure(error)) =>
        /\ resp.status = 503
        /\ resp.code = "NETWORK_ERROR"
        /\ Invoked("stop")

(***************************************************************************)
(* Properties of the responses of every endpoint, under SpecServer.        *)
(***************************************************************************)
Answered == srvPc = "done"

\* C15: every failure response, from any route and from any middleware,
\* the global error handler reached by a body-parsing failure included,
\* contains an error code, a message and the requestId of the request.
C15_FailuresAreStructured ==
    (Answered /\ ~body.success) =>
        body.code # "" /\ body.message # "" /\ body.requestId # ""

\* C16: in production mode no response body holds a stack trace or the raw
\* message of an internal failure: the body sent is the same whatever the
\* text of the internal failure the request hit.
C16_ProductionHidesInternalText ==
    (Answered /\ nodeEnv = "production") =>
        /\ body.stack = "" /\ body.details = "" /\ body.message \notin RawTexts
        /\ \A t \in ErrorTexts : ResponseAt(site, t, nodeEnv, requestId) = body

(***************************************************************************)
(* Properties of the configuration, under SpecConfig.                      *)
(***************************************************************************)
\* the configuration holds a missing or invalid value: no RPC endpoint, no
\* signing credential, no account address, a pricing deviation outside
\* 0..1000000 ppm or a request timeout outside 1000..60000 ms
InvalidConfiguration(c) ==
    \/ ~c.starknetRpcUrl \/ ~c.starknetPrivateKey \/ ~c.starknetAccountAddress
    \/ c.maxPricingDifferencePPM \notin 0..1000000
    \/ c.getRequestTimeout \notin 1000..60000
    \/ c.postRequestTimeout \notin 1000..60000

\* C17: a missing or invalid configuration value makes the server fail at
\* startup; once the server accepts requests, no request fails because of
\* configuration validation.
C17_ConfigurationFailsAtStartupOnly ==
    /\ InvalidConfiguration(createDefaultConfig(processEnv)) => server # "listening"
    /\ server = "listening" => configError = ""

(***************************************************************************)
(* Properties of ErrorClassifier, under SpecClassify.                      *)
(***************************************************************************)
\* C18: isRetryable is true exactly for NETWORK_ERROR, TIMEOUT_ERROR,
\* PAYMENT_TIMEOUT, RPC_CONNECTION_FAILED and LIGHTNING_NOT_AVAILABLE.
C18_RetryableCodes ==
    retryable # "unknown" =>
        (retryable = "true" <=>
            classified.code \in {"NETWORK_ERROR", "TIMEOUT_ERROR", "PAYMENT_TIMEOUT",
                                 "RPC_CONNECTION_FAILED", "LIGHTNING_NOT_AVAILABLE"})

\* the code of the first keyword group of which the message, compared
\* case-insensitively, contains a keyword; the fallback if there is none
GroupCode(groups, codes, message, fallback) ==
    LET lower == {ToLowerCase(w) : w \in message}
        hits == {i \in 1..Len(groups) : \E k \in groups[i] : Includes(lower, k)}
    IN IF hits = {} THEN fallback
       ELSE codes[CHOOSE i \in hits : \A j \in hits : i <= j]

GroupCodes == <<"NETWORK_ERROR", "RPC_CONNECTION_FAILED", "TIMEOUT_ERROR",
                "INSUFFICIENT_BALANCE", "CONFIGURATION_ERROR">>
StatedGroups == <<{"network", "connection"}, {"rpc", "provider", "node"}, {"timeout"},
                  {"insufficient balance", "insufficient funds"},
                  {"configuration", "environment", "missing"}>>
ReadGroups == <<{"network", "connection", "econnrefused"}, {"rpc", "node", "provider"},
                {"timeout", "timed out"},
                {"insufficient balance", "insufficient funds"},
                {"config", "environment", "missing"}>>

\* the code classify must give a failure that carries none
ExpectedCode(groups) ==
    IF failure.kind = "Error"
    THEN GroupCode(groups, GroupCodes, failure.message, fallbackCode)
    ELSE fallbackCode

C20_ClassifyPassesAppErrorThrough ==
    /\ (classified # NoFailure /\ failure.kind = "AppError") => classified = failure
    /\ reclassified # NoFailure => reclassified = classified

C20_Witness ==
    /\ reclassified # NoFailure
    /\ failure.kind = "Error"
    /\ now > classified.timestamp
    /\ reclassified.code # fallbackCode

\* C21: rate-limit buckets are isolated per client identity: a request of one
\* client never creates, changes or resets another client's bucket, and
\* whether a request is admitted depends only on the requester's own earlier
\* requests and the clock (the decision is the one its own requests alone
\* lead to, whatever the other clients issued in between)
C21_BucketsAreIsolated ==
    /\ [](/\ rateLimitStore = ownStore
          /\ lastRl.client # "none" => Verdict(lastRl.next) = lastOwn)
    /\ [][\A d \in Clients :
              rateLimitStore'[d] # rateLimitStore[d] =>
                  (issued' = issued + 1 /\ lastRl'.client = d)]_vars

\* a request of c2 was rejected on c2's own count while c1, with requests
\* of its own in between, holds a bucket of another window
C21_Witness ==
    /\ lastRl.client = "c2"
    /\ ~lastRl.next
    /\ rateLimitStore["c1"].present
    /\ rateLimitStore["c1"].resetTime # rateLimitStore["c2"].resetTime
    /\ issued >= 4

\* C24: rateLimitMiddleware, which checks the ceiling before it increments,
\* admits and rejects exactly the requests the fixed-window counter admits
\* and rejects, for every sequence of requests and times of any clients,
\* both starting from an empty store
C24_DecidesAsFixedWindowCounter ==
    lastRl.client # "none" => Verdict(lastRl.next) = lastSpec

\* both rejected a request although their buckets differ by now: the
\* counter has counted two rejected requests the middleware has not
C24_Witness ==
    /\ lastRl.client = "c1"
    /\ ~lastRl.next
    /\ lastSpec = "reject"
    /\ specStore["c1"].count >= rateLimitStore["c1"].count + 2

\* the requester's bucket before and after the request that just ran
BucketBefore == lastRl'.pre
BucketAfter == rateLimitStore'[lastRl'.client]
RequestRan == issued' = issued + 1

\* the bucket is reset to count 1 with a new window exactly when it exists
\* and the current time has passed the end of its window
ResetWhenWindowPassed ==
    BucketBefore.present =>
        ((BucketAfter.count = 1 /\ BucketAfter.resetTime = now + windowMs
            /\ BucketAfter # BucketBefore)
         <=> now > BucketBefore.resetTime)

C22_OneMiBOrMoreRejected ==
    (Done /\ DeclaredLength(req) >= maxSize) =>
        /\ resp.status = 413
        /\ resp.code = "REQUEST_TOO_LARGE"
        /\ ~ReachedRoute

C27_CompletedSwapAnswered200 ==
    (Done /\ Called("commit", "ok") /\ Called("wait", "true")) =>
        (resp.status = 200 /\ resp.success)

\* C30: after the server receives SIGTERM or SIGINT the process always
\* terminates: with exit code 0 once the HTTP server has closed all its
\* connections, otherwise with exit code 1 when the 10-second timer fires;
\* it never keeps running, whatever requests are in flight
C30_ShutdownTerminates ==
    /\ (signals > 0) ~> (server = "exited")
    /\ [](server = "exited" =>
            /\ signals > 0
            /\ exitCode \in {0, 1}
            /\ exitCode = 0 => connections = 0
            /\ exitCode = 1 => \E i \in 1..Len(timers) : timers[i] <= 0)

\* the timer ended the process while a request was still in flight
C30_Witness ==
    /\ server = "exited"
    /\ exitCode = 1
    /\ connections > 0
    /\ signals = 1

\* C28: an AtomicSwapper is usable only after a successful initialize():
\* createSwapQuote, getSwapLimits, getSpendableBalance, parseAddress,
\* getSwapById and getSwapper throw 'Swapper not initialized' unless an
\* initialize() has completed without error; a failed initialize() leaves
\* isReady() false; a second initialize() after a successful one does nothing
C28_UsableOnlyAfterInitialize ==
    /\ [](/\ isInitialized <=> completed
          /\ lastCall.method \in {"createSwapQuote", "getSwapLimits", "getSpendableBalance",
                                  "parseAddress", "getSwapById", "getSwapper"}
                => (lastCall.threw <=> ~lastCall.completed))
    /\ [][\A p \in Callers :
             (completed /\ initPc'[p] # initPc[p] /\ initPc[p] \notin {"init", "signer"})
                 => (initPc'[p] = "skipped"
                        /\ UNCHANGED <<isInitialized, sdkSwapper, runs, failedRuns>>)]_vars

\* a guarded method threw after a failed initialize(), and an initialize()
\* entered after a successful one returned at once
C28_Witness ==
    /\ completed
    /\ failedRuns > 0
    /\ \E p \in Callers : initPc[p] = "skipped"
    /\ lastCall.method = "createSwapQuote"
    /\ ~lastCall.threw

\* C29: an AtomicSwapper creates and initialises its SDK swapper at most
\* once, also when initialize() is entered by overlapping callers: of the
\* newSwapper()/init() runs started, all but one at most have failed
C29_InitialisedAtMostOnce ==
    runs - failedRuns <= 1

\* C26: in POST /api/invoice, once an AtomicSwapper has been constructed for
\* the request, swapper.stop() is invoked before the response is sent on
\* every exit path, the paths where initialize, createSwapQuote, commit or
\* waitForPayment throws included
C26_InvoiceStopsSwapper ==
    (Done /\ swapper # "null") => Invoked("stop")

====
